---- MODULE Spec2Model ----
(***************************************************************************)
(* Model of the gluify pipeline builder and of its two executors, run()    *)
(* and runAsync() (Gluify.ts).  A pipeline is an immutable list of         *)
(* operations plus a lazy seed producer; an execution walks the list with  *)
(* a private (result, error) pair.  Caller-supplied functions are opaque   *)
(* collaborators: they are drawn from small families and every invocation *)
(* is recorded, as the test-suite's vi.fn() mocks record them.             *)
(***************************************************************************)
EXTENDS Integers, Sequences, FiniteSets, Bags, TLC

VARIABLES pipelines, frames, calls

vars == <<pipelines, frames, calls>>

\* Longest step list built.
MaxSteps == 3
\* Number of executions started in one behaviour.
MaxRuns == 1
\* Caller arithmetic is done modulo NumMod.
NumMod == 4

-----------------------------------------------------------------------------
(* JavaScript values.  p tells whether the value is a plain value or a     *)
(* deferred value (Promise) that settles, fulfilled or rejected, with the  *)
(* plain value (t, n, a); a holds the elements of an array.                *)

Num(k) == [t |-> "number", n |-> k, p |-> "plain", a |-> <<>>]
Undefined == [t |-> "undefined", n |-> 0, p |-> "plain", a |-> <<>>]
Null == [t |-> "null", n |-> 0, p |-> "plain", a |-> <<>>]
Bool(b) == [t |-> "boolean", n |-> IF b THEN 1 ELSE 0, p |-> "plain", a |-> <<>>]
False == Bool(FALSE)
EmptyString == [t |-> "string", n |-> 0, p |-> "plain", a |-> <<>>]
\* A string that is not empty, such as "[object Promise]1".
SomeString == [t |-> "string", n |-> 1, p |-> "plain", a |-> <<>>]
NaN == [t |-> "NaN", n |-> 0, p |-> "plain", a |-> <<>>]
Err(k) == [t |-> "Error", n |-> k, p |-> "plain", a |-> <<>>]
\* The TypeError of calling a method of a value that has none.
TypeError == [t |-> "TypeError", n |-> 0, p |-> "plain", a |-> <<>>]
Arr(items) == [t |-> "array", n |-> 0, p |-> "plain", a |-> items]
\* Arrays and objects are references: n is the identity of the array or
\* object (0 where the identity does not matter) and a its elements, for an
\* object its entries [key, value] in insertion order.
Str(k) == [t |-> "string", n |-> k, p |-> "plain", a |-> <<>>]
Pair(key, v) == Arr(<<key, v>>)
Obj(entries) == [t |-> "object", n |-> 0, p |-> "plain", a |-> entries]
\* The same contents as another array or object (another identity).
Ref(id, v) == [v EXCEPT !.n = id]
\* The identity of the array or object that the operation at position `at`
\* of an execution creates; the producer, at position 0, creates identity 1.
Fresh(at) == at + 1
Resolved(v) == [v EXCEPT !.p = "fulfilled"]
Rejected(v) == [v EXCEPT !.p = "rejected"]
\* The plain value a Promise settles with.
Plain(v) == [v EXCEPT !.p = "plain"]

IsPromise(v) == v.p # "plain"

IsArray(v) == v.t = "array" /\ ~IsPromise(v)

IsObject(v) == v.t = "object" /\ ~IsPromise(v)

\* ToBoolean of the language, as used by `if (error)`.
ToBoolean(v) ==
  IF IsPromise(v) THEN TRUE
  ELSE CASE v.t = "number" -> v.n # 0
         [] v.t = "boolean" -> v.n # 0
         [] v.t = "string" -> v.n # 0
         [] v.t = "undefined" -> FALSE
         [] v.t = "null" -> FALSE
         [] v.t = "NaN" -> FALSE
         [] OTHER -> TRUE

-----------------------------------------------------------------------------
(* Caller-supplied functions and the outcome of invoking one.              *)

Return(v) == [threw |-> FALSE, val |-> v]
Throw(v) == [threw |-> TRUE, val |-> v]

Fn(name, k) == [name |-> name, k |-> k]

Succ == Fn("succ", Undefined)
Const(v) == Fn("const", v)
Thrower(v) == Fn("throw", v)
\* async () => { throw v }
Rejecter(v) == Fn("reject", v)
\* x => x > k
GreaterThan(k) == Fn("gt", Num(k))
\* x => x * 2
Double == Fn("double", Undefined)
\* async x => x + 1
AsyncSucc == Fn("asyncSucc", Undefined)

\* x + 1: addition of numbers, NaN for undefined and NaN, and for an object
\* (a Promise, an array, an Error) the concatenation of its string with "1".
Plus1(v) ==
  IF IsPromise(v) THEN SomeString
  ELSE CASE v.t = "number" -> Num((v.n + 1) % NumMod)
         [] v.t = "boolean" -> Num((v.n + 1) % NumMod)
         [] v.t = "null" -> Num(1)
         [] v.t \in {"undefined", "NaN"} -> NaN
         [] OTHER -> SomeString

\* x * 2: NaN unless x converts to a number.
Times2(v) ==
  IF IsPromise(v) THEN NaN
  ELSE CASE v.t = "number" -> Num((2 * v.n) % NumMod)
         [] v.t = "boolean" -> Num((2 * v.n) % NumMod)
         [] v.t = "null" -> Num(0)
         [] OTHER -> NaN

Apply(fn, v) ==
  CASE fn.name = "succ" -> Return(Plus1(v))
    [] fn.name = "const" -> Return(fn.k)
    [] fn.name = "throw" -> Throw(fn.k)
    [] fn.name = "reject" -> Return(Rejected(fn.k))
    [] fn.name = "gt" -> Return(Bool(v.t = "number" /\ ~IsPromise(v) /\ v.n > fn.k.n))
    [] fn.name = "double" -> Return(Times2(v))
    [] fn.name = "asyncSucc" -> Return(Resolved(Plus1(v)))

-----------------------------------------------------------------------------
(* Pipelines and their operations.                                         *)

\* One invocation, as a mock records it: of the producer, of an operation
\* ("op") or handler by an executor, or of the caller's function or predicate
\* inside an operation.
Invocation(id, role, at, arg, o) ==
  [id |-> id, role |-> role, at |-> at, arg |-> arg, threw |-> o.threw, val |-> o.val,
   late |-> FALSE, rest |-> <<>>]

\* The first of the arguments of a call (undefined if there is none) and the
\* arguments after it.
First(args) == IF args = <<>> THEN Undefined ELSE Head(args)

Rest(args) == IF args = <<>> THEN <<>> ELSE Tail(args)

\* (...xs) => xs
Args == Fn("args", Undefined)

\* fn(...args): a function of one parameter ignores the arguments after the
\* first.
Call(fn, args) ==
  IF fn.name = "args" THEN Return(Arr(args)) ELSE Apply(fn, First(args))

\* One invocation with the argument list args.
InvocationOf(id, role, at, args, o) ==
  [Invocation(id, role, at, First(args), o) EXCEPT !.rest = Rest(args)]

\* The entry of `calls` that counts the invocations of one function.
Counter(id, role) == [id |-> id, role |-> role]

Count(evs) == BagOfAll(LAMBDA ev : Counter(ev.id, ev.role), SetToBag({evs[k] : k \in DOMAIN evs}))

NoFn == Fn("null", Undefined)

\* An Operation that a builder stores: the closure of `kind` over the caller's
\* fn (and predicate, for when).
Operation(id, kind, fn, predicate) ==
  [id |-> id, kind |-> kind, isErrorHandler |-> FALSE, fn |-> fn, predicate |-> predicate,
   handler |-> NoFn, args |-> <<>>]

\* The marker operation that catch() stores.
ErrorHandlerOperation(id, handler) ==
  [id |-> id, kind |-> "catch", isErrorHandler |-> TRUE, fn |-> NoFn, predicate |-> NoFn,
   handler |-> handler, args |-> <<>>]

Gluify(initialValue, operations, isLazy, lazyInitializer) ==
  [initialValue |-> initialValue, operations |-> operations,
   isLazy |-> isLazy, lazyInitializer |-> lazyInitializer]

\* createNext that starts the new pipeline from an empty seed.
createNextFresh(this, newOperations) ==
  Gluify(Undefined, newOperations, FALSE, [id |-> 0, fn |-> Fn("null", Undefined), args |-> <<>>])

createNext(this, newOperations) ==
  Gluify(this.initialValue, newOperations, this.isLazy, this.lazyInitializer)

isErrorHandler(op) == op.isErrorHandler

\* What the Promise of an async function settles with when its body ends in o.
Settle(o) ==
  IF o.threw THEN Rejected(o.val)
  ELSE IF IsPromise(o.val) THEN o.val ELSE Resolved(o.val)

\* arr.map(fn) from the first of `items` on: fn is called on every element in
\* turn until one call raises.
RECURSIVE mapItems(_, _, _, _, _)
mapItems(op, at, items, vals, evs) ==
  IF items = <<>>
  THEN [out |-> Return(Ref(Fresh(at), Arr(vals))), evs |-> evs]
  ELSE LET o == Apply(op.fn, Head(items))
           ev == Invocation(op.id, "fn", at, Head(items), o)
       IN  IF o.threw
           THEN [out |-> o, evs |-> Append(evs, ev)]
           ELSE mapItems(op, at, Tail(items), Append(vals, o.val), Append(evs, ev))

\* tap's closure returning what fn returns.
tapOperationReturnsFn(op, at, value) ==
  LET o == Apply(op.fn, value)
  IN  [out |-> o, evs |-> <<Invocation(op.id, "fn", at, value, o)>>]

\* tap's closure: (value) => { fn(value); return value }.
tapOperation(op, at, value) ==
  LET o == Apply(op.fn, value)
  IN  [out |-> IF o.threw THEN o ELSE Return(value),
       evs |-> <<Invocation(op.id, "fn", at, value, o)>>]

\* What the closure of op does with value, and the invocations of the
\* caller's functions that it makes on the way.
-----------------------------------------------------------------------------
(* The catalog: the operation closures of the array and object utilities.  *)
(* Each is given the operation (its parameters are op.fn and op.args), its *)
(* position and the piped value, and gives the outcome and the events: the *)
(* invocations of the caller's callback and, with role "write", every      *)
(* in-place change of an array or object (arg: the array or object as it   *)
(* was, val: as it is afterwards).                                         *)

Min(a, b) == IF a <= b THEN a ELSE b

Max(a, b) == IF a >= b THEN a ELSE b

NotAFunction == [out |-> Throw(TypeError), evs |-> <<>>]

\* The relative index k of Array.prototype.slice on an array of length len.
Relative(k, len) == IF k < 0 THEN Max(len + k, 0) ELSE Min(k, len)

\* items.slice(start, end)
slice(items, start, end) ==
  LET from == Relative(start, Len(items))
      to == Relative(end, Len(items))
  IN  IF from >= to THEN <<>> ELSE SubSeq(items, from + 1, to)

\* [...arr] and {...obj}: a new array or object with the same contents.
Spread(at, value) == Ref(Fresh(at), value)

\* The event of an in-place change of `before` into `after`.
Write(op, at, before, after) == Invocation(op.id, "write", at, before, Return(after))

\* The default sort order on the elements of the modelled arrays, single
\* digits and arrays of one digit: the order of their strings.
SortKey(v) == IF v.t = "number" THEN v.n ELSE IF v.a = <<>> THEN -1 ELSE v.a[1].n

RECURSIVE Insert(_, _)
Insert(v, sorted) ==
  IF sorted = <<>> THEN <<v>>
  ELSE IF SortKey(v) < SortKey(Head(sorted)) THEN <<v>> \o sorted
  ELSE <<Head(sorted)>> \o Insert(v, Tail(sorted))

RECURSIVE Sorted(_)
Sorted(items) ==
  IF items = <<>> THEN <<>>
  ELSE Insert(items[Len(items)], Sorted(SubSeq(items, 1, Len(items) - 1)))

Reversed(items) == [k \in DOMAIN items |-> items[Len(items) + 1 - k]]

\* take that includes the element at index n.
takeOperationInclusive(op, at, arr) ==
  IF IsArray(arr)
  THEN [out |-> Return(Ref(Fresh(at), Arr(slice(arr.a, 0, op.args[1].n + 1)))), evs |-> <<>>]
  ELSE NotAFunction

\* (arr) => arr.slice(0, n)
takeOperation(op, at, arr) ==
  IF IsArray(arr)
  THEN [out |-> Return(Ref(Fresh(at), Arr(slice(arr.a, 0, op.args[1].n)))), evs |-> <<>>]
  ELSE NotAFunction

\* (arr) => arr.slice(n)
skipOperation(op, at, arr) ==
  IF IsArray(arr)
  THEN [out |-> Return(Ref(Fresh(at), Arr(slice(arr.a, op.args[1].n, Len(arr.a))))), evs |-> <<>>]
  ELSE NotAFunction

\* sort without the copy: (arr) => arr.sort()
sortOperationInPlace(op, at, arr) ==
  IF IsArray(arr)
  THEN LET after == [arr EXCEPT !.a = Sorted(@)]
       IN  [out |-> Return(after), evs |-> <<Write(op, at, arr, after)>>]
  ELSE NotAFunction

\* (arr) => [...arr].sort(): the copy is sorted in place and returned.
sortOperation(op, at, arr) ==
  IF IsArray(arr)
  THEN LET copy == Spread(at, arr)
           after == [copy EXCEPT !.a = Sorted(@)]
       IN  [out |-> Return(after), evs |-> <<Write(op, at, copy, after)>>]
  ELSE NotAFunction

\* (arr) => [...arr].reverse(): the copy is reversed in place and returned.
reverseOperation(op, at, arr) ==
  IF IsArray(arr)
  THEN LET copy == Spread(at, arr)
           after == [copy EXCEPT !.a = Reversed(@)]
       IN  [out |-> Return(after), evs |-> <<Write(op, at, copy, after)>>]
  ELSE NotAFunction

\* items.flat(): the elements of the elements that are arrays, one level.
RECURSIVE Flat(_)
Flat(items) ==
  IF items = <<>> THEN <<>>
  ELSE (IF IsArray(Head(items)) THEN Head(items).a ELSE <<Head(items)>>) \o Flat(Tail(items))

\* (arr) => arr.flat()
flatOperation(op, at, arr) ==
  IF IsArray(arr)
  THEN [out |-> Return(Ref(Fresh(at), Arr(Flat(arr.a)))), evs |-> <<>>]
  ELSE NotAFunction

\* The elements of new Set(items) in insertion order: the first occurrences.
RECURSIVE Distinct(_)
Distinct(items) ==
  IF items = <<>> THEN <<>>
  ELSE LET init == SubSeq(items, 1, Len(items) - 1)
           last == items[Len(items)]
       IN  IF \E k \in DOMAIN init : init[k] = last
           THEN Distinct(init)
           ELSE Append(Distinct(init), last)

\* (arr) => Array.from(new Set(arr))
uniqueOperation(op, at, arr) ==
  IF IsArray(arr)
  THEN [out |-> Return(Ref(Fresh(at), Arr(Distinct(arr.a)))), evs |-> <<>>]
  ELSE NotAFunction

\* arr.filter(predicate) from the first of `items` on: predicate is called on
\* every element in turn until one call raises.
RECURSIVE filterItems(_, _, _, _, _)
filterItems(op, at, items, kept, evs) ==
  IF items = <<>>
  THEN [out |-> Return(Ref(Fresh(at), Arr(kept))), evs |-> evs]
  ELSE LET o == Apply(op.fn, Head(items))
           ev == Invocation(op.id, "fn", at, Head(items), o)
       IN  IF o.threw
           THEN [out |-> o, evs |-> Append(evs, ev)]
           ELSE filterItems(op, at, Tail(items),
                            IF ToBoolean(o.val) THEN Append(kept, Head(items)) ELSE kept,
                            Append(evs, ev))

\* (arr) => arr.filter(predicate)
filterOperation(op, at, arr) ==
  IF IsArray(arr) THEN filterItems(op, at, arr.a, <<>>, <<>>) ELSE NotAFunction

\* key in source
In(key, entries) == \E k \in DOMAIN entries : entries[k].a[1] = key

\* source[key]
Get(entries, key) == entries[CHOOSE k \in DOMAIN entries : entries[k].a[1] = key].a[2]

\* result[key] = v: the value of an own key is replaced where the key is, a
\* new key is added last.
Put(entries, key, v) ==
  IF In(key, entries)
  THEN [k \in DOMAIN entries |-> IF entries[k].a[1] = key THEN Pair(key, v) ELSE entries[k]]
  ELSE Append(entries, Pair(key, v))

\* delete result[key]
Delete(entries, key) == SelectSeq(entries, LAMBDA entry : entry.a[1] # key)

\* The loop of pick over `keys`: result[key] = source[key] for the keys in
\* source, each a change of `result`.
RECURSIVE pickKeys(_, _, _, _, _, _)
pickKeys(op, at, source, keys, result, evs) ==
  IF keys = <<>> THEN [out |-> Return(result), evs |-> evs]
  ELSE IF In(Head(keys), source.a)
       THEN LET after == [result EXCEPT !.a = Put(@, Head(keys), Get(source.a, Head(keys)))]
            IN  pickKeys(op, at, source, Tail(keys), after, Append(evs, Write(op, at, result, after)))
       ELSE pickKeys(op, at, source, Tail(keys), result, evs)

\* pick's closure: a new empty object filled from obj.
pickOperation(op, at, obj) ==
  IF IsObject(obj)
  THEN pickKeys(op, at, obj, op.args, Ref(Fresh(at), Obj(<<>>)), <<>>)
  ELSE NotAFunction

\* The loop of omit over `keys`: delete result[key], each a change of `result`.
RECURSIVE omitKeys(_, _, _, _, _)
omitKeys(op, at, keys, result, evs) ==
  IF keys = <<>> THEN [out |-> Return(result), evs |-> evs]
  ELSE LET after == [result EXCEPT !.a = Delete(@, Head(keys))]
       IN  omitKeys(op, at, Tail(keys), after, Append(evs, Write(op, at, result, after)))

\* omit's closure: the keys are deleted from a copy { ...obj }.
omitOperation(op, at, obj) ==
  IF IsObject(obj)
  THEN omitKeys(op, at, op.args, Spread(at, obj), <<>>)
  ELSE NotAFunction

\* The entries of { ...entries, ...other }.
RECURSIVE PutAll(_, _)
PutAll(entries, other) ==
  IF other = <<>> THEN entries
  ELSE PutAll(Put(entries, Head(other).a[1], Head(other).a[2]), Tail(other))

\* (obj) => ({ ...obj, ...other })
mergeOperation(op, at, obj) ==
  IF IsObject(obj)
  THEN [out |-> Return(Ref(Fresh(at), Obj(PutAll(obj.a, op.args[1].a)))), evs |-> <<>>]
  ELSE NotAFunction

\* clone's closure: [...value] of an array, { ...value } of an object, the
\* value itself otherwise.
cloneOperation(op, at, value) ==
  IF IsArray(value) \/ IsObject(value)
  THEN [out |-> Return(Spread(at, value)), evs |-> <<>>]
  ELSE [out |-> Return(value), evs |-> <<>>]

\* pipeOperation that passes the bound arguments first and the value last.
pipeOperationArgsFirst(op, at, value) ==
  LET o == Call(op.fn, op.args \o <<value>>)
  IN  [out |-> o, evs |-> <<InvocationOf(op.id, "fn", at, op.args \o <<value>>, o)>>]

\* (value) => fn(value, ...args)
pipeOperation(op, at, value) ==
  LET o == Call(op.fn, <<value>> \o op.args)
  IN  [out |-> o, evs |-> <<InvocationOf(op.id, "fn", at, <<value>> \o op.args, o)>>]

\* pipeAsyncOperation without `await value`: fn is given the value as it is.
pipeAsyncOperationNoAwait(op, at, value) ==
  LET o == Call(op.fn, <<value>> \o op.args)
      ev == InvocationOf(op.id, "fn", at, <<value>> \o op.args, o)
  IN  [out |-> Return(Settle(o)), evs |-> <<ev>>]

\* pipeAsyncOperation as a closure that is not async: what fn raises is raised
\* by the operation, what fn returns is returned as it is.
pipeAsyncOperationNotAsync(op, at, value) ==
  IF value.p = "rejected"
  THEN [out |-> Return(value), evs |-> <<>>]
  ELSE LET o == Call(op.fn, <<Plain(value)>> \o op.args)
           ev == InvocationOf(op.id, "fn", at, <<Plain(value)>> \o op.args, o)
       IN  [out |-> o, evs |-> <<[ev EXCEPT !.late = IsPromise(value)]>>]

\* async (value) => fn(value instanceof Promise ? await value : value, ...args):
\* the closure returns a Promise; fn is invoked with the resolved value (later,
\* if value is a Promise), and not at all if that Promise rejects.
pipeAsyncOperation(op, at, value) ==
  IF value.p = "rejected"
  THEN [out |-> Return(value), evs |-> <<>>]
  ELSE LET o == Call(op.fn, <<Plain(value)>> \o op.args)
           ev == InvocationOf(op.id, "fn", at, <<Plain(value)>> \o op.args, o)
       IN  [out |-> Return(Settle(o)),
            evs |-> <<[ev EXCEPT !.late = IsPromise(value)]>>]

Body(op, at, value) ==
  CASE op.kind = "pipe" -> pipeOperation(op, at, value)
    [] op.kind = "pipeAsync" -> pipeAsyncOperation(op, at, value)
    [] op.kind = "tap" -> tapOperation(op, at, value)
    [] op.kind = "when" ->
         LET t == Apply(op.predicate, value)
             tev == Invocation(op.id, "predicate", at, value, t)
             o == Apply(op.fn, value)
         IN  IF t.threw THEN [out |-> t, evs |-> <<tev>>]
             ELSE IF ToBoolean(t.val)
                  THEN [out |-> o, evs |-> <<tev, Invocation(op.id, "fn", at, value, o)>>]
                  ELSE [out |-> Return(value), evs |-> <<tev>>]
    [] op.kind = "map" ->
         IF value.t = "array" /\ ~IsPromise(value)
         THEN mapItems(op, at, value.a, <<>>, <<>>)
         ELSE [out |-> Throw(TypeError), evs |-> <<>>]
    [] op.kind = "catch" ->
         [out |-> Return(value), evs |-> <<>>]
    [] op.kind = "filter" -> filterOperation(op, at, value)
    [] op.kind = "take" -> takeOperation(op, at, value)
    [] op.kind = "skip" -> skipOperation(op, at, value)
    [] op.kind = "sort" -> sortOperation(op, at, value)
    [] op.kind = "reverse" -> reverseOperation(op, at, value)
    [] op.kind = "flat" -> flatOperation(op, at, value)
    [] op.kind = "unique" -> uniqueOperation(op, at, value)
    [] op.kind = "pick" -> pickOperation(op, at, value)
    [] op.kind = "omit" -> omitOperation(op, at, value)
    [] op.kind = "merge" -> mergeOperation(op, at, value)
    [] op.kind = "clone" -> cloneOperation(op, at, value)

\* op(value): the invocations made inside the operation, then that of the
\* operation itself with its outcome.
Invoke(op, at, value) ==
  LET b == Body(op, at, value)
  IN  [out |-> b.out, evs |-> Append(b.evs, Invocation(op.id, "op", at, value, b.out))]

\* Identity of the function created by the next gluify() or builder call.
NextId == Len(pipelines) + 1

Idle == \A e \in DOMAIN frames : frames[e].pc # "loop"

gluify(fn) ==
  /\ Idle
  /\ pipelines' = Append(pipelines, Gluify(Undefined, <<>>, TRUE, [id |-> NextId, fn |-> fn, args |-> <<>>]))
  /\ UNCHANGED <<frames, calls>>

\* pipe that evaluates fn when it is appended instead of storing it.
pipeEager(r, fn) ==
  /\ Idle
  /\ r \in DOMAIN pipelines
  /\ LET operation == Operation(NextId, "pipe", fn, NoFn)
     IN  pipelines' = Append(pipelines, createNext(pipelines[r], Append(pipelines[r].operations, operation)))
  /\ calls' = calls (+) SetToBag({Counter(NextId, "fn")})
  /\ UNCHANGED frames

\* pipe that pushes the new operation onto the receiver's own array and hands
\* that array to the new pipeline.
pipePushes(r, fn) ==
  /\ Idle
  /\ r \in DOMAIN pipelines
  /\ LET operation == Operation(NextId, "pipe", fn, NoFn)
         pushed == [pipelines[r] EXCEPT !.operations = Append(@, operation)]
     IN  pipelines' = Append([pipelines EXCEPT ![r] = pushed], createNext(pushed, pushed.operations))
  /\ UNCHANGED <<frames, calls>>

\* pipe that puts the new operation in front of the receiver's operations.
pipePrepends(r, fn) ==
  /\ Idle
  /\ r \in DOMAIN pipelines
  /\ LET operation == Operation(NextId, "pipe", fn, NoFn)
     IN  pipelines' = Append(pipelines, createNext(pipelines[r], <<operation>> \o pipelines[r].operations))
  /\ UNCHANGED <<frames, calls>>

\* gluify(fn, ...args)
gluifyArgs(fn, args) ==
  /\ Idle
  /\ pipelines' = Append(pipelines, Gluify(Undefined, <<>>, TRUE, [id |-> NextId, fn |-> fn, args |-> args]))
  /\ UNCHANGED <<frames, calls>>

\* pipe(fn, ...args)
pipeArgs(r, fn, args) ==
  /\ Idle
  /\ r \in DOMAIN pipelines
  /\ LET operation == [Operation(NextId, "pipe", fn, NoFn) EXCEPT !.args = args]
     IN  pipelines' = Append(pipelines, createNext(pipelines[r], Append(pipelines[r].operations, operation)))
  /\ UNCHANGED <<frames, calls>>

\* pipeAsync(fn, ...args)
pipeAsyncArgs(r, fn, args) ==
  /\ Idle
  /\ r \in DOMAIN pipelines
  /\ LET operation == [Operation(NextId, "pipeAsync", fn, NoFn) EXCEPT !.args = args]
     IN  pipelines' = Append(pipelines, createNext(pipelines[r], Append(pipelines[r].operations, operation)))
  /\ UNCHANGED <<frames, calls>>

pipe(r, fn) ==
  /\ Idle
  /\ r \in DOMAIN pipelines
  /\ LET operation == Operation(NextId, "pipe", fn, NoFn)
     IN  pipelines' = Append(pipelines, createNext(pipelines[r], Append(pipelines[r].operations, operation)))
  /\ UNCHANGED <<frames, calls>>

pipeAsync(r, fn) ==
  /\ Idle
  /\ r \in DOMAIN pipelines
  /\ LET operation == Operation(NextId, "pipeAsync", fn, NoFn)
     IN  pipelines' = Append(pipelines, createNext(pipelines[r], Append(pipelines[r].operations, operation)))
  /\ UNCHANGED <<frames, calls>>

tap(r, fn) ==
  /\ Idle
  /\ r \in DOMAIN pipelines
  /\ LET operation == Operation(NextId, "tap", fn, NoFn)
     IN  pipelines' = Append(pipelines, createNext(pipelines[r], Append(pipelines[r].operations, operation)))
  /\ UNCHANGED <<frames, calls>>

catch(r, handler) ==
  /\ Idle
  /\ r \in DOMAIN pipelines
  /\ LET operation == ErrorHandlerOperation(NextId, handler)
     IN  pipelines' = Append(pipelines, createNext(pipelines[r], Append(pipelines[r].operations, operation)))
  /\ UNCHANGED <<frames, calls>>

\* recover that appends a handler raising the fallback value.
recoverRaises(r, fallbackValue) == catch(r, Thrower(fallbackValue))

\* recover(fallbackValue) is this.catch(() => fallbackValue).
recover(r, fallbackValue) == catch(r, Const(fallbackValue))

when(r, predicate, fn) ==
  /\ Idle
  /\ r \in DOMAIN pipelines
  /\ LET operation == Operation(NextId, "when", fn, predicate)
     IN  pipelines' = Append(pipelines, createNext(pipelines[r], Append(pipelines[r].operations, operation)))
  /\ UNCHANGED <<frames, calls>>

map(r, fn) ==
  /\ Idle
  /\ r \in DOMAIN pipelines
  /\ LET operation == Operation(NextId, "map", fn, NoFn)
     IN  pipelines' = Append(pipelines, createNext(pipelines[r], Append(pipelines[r].operations, operation)))
  /\ UNCHANGED <<frames, calls>>

\* return this.createNext([...this.operations, operation]) of the catalog
\* builders, for the operation of `kind` with parameters fn and args.
append(r, kind, fn, args) ==
  /\ Idle
  /\ r \in DOMAIN pipelines
  /\ LET operation == [Operation(NextId, kind, fn, NoFn) EXCEPT !.args = args]
     IN  pipelines' = Append(pipelines, createNext(pipelines[r], Append(pipelines[r].operations, operation)))
  /\ UNCHANGED <<frames, calls>>

filter(r, predicate) == append(r, "filter", predicate, <<>>)

take(r, n) == append(r, "take", NoFn, <<Num(n)>>)

skip(r, n) == append(r, "skip", NoFn, <<Num(n)>>)

sort(r) == append(r, "sort", NoFn, <<>>)

reverse(r) == append(r, "reverse", NoFn, <<>>)

flat(r) == append(r, "flat", NoFn, <<>>)

unique(r) == append(r, "unique", NoFn, <<>>)

pick(r, keys) == append(r, "pick", NoFn, keys)

omit(r, keys) == append(r, "omit", NoFn, keys)

merge(r, other) == append(r, "merge", NoFn, <<other>>)

clone(r) == append(r, "clone", NoFn, <<>>)

-----------------------------------------------------------------------------
(* Executions.  A frame is the call frame of one run() or runAsync(): the  *)
(* locals `result` and `error`, the number i of operations walked, and the *)
(* invocations made so far.  pc is "loop" while the frame runs, "awaitSeed"*)
(* or "awaitOp" while it is suspended at an await, and "returned" or       *)
(* "threw" once the call has completed (for runAsync(): once the returned  *)
(* Promise is fulfilled or rejected) with `outcome`.  `call` is what the   *)
(* call expression itself has done so far: "running" until control is back *)
(* at the caller, then "returned" (run(): the value; runAsync(): the       *)
(* Promise) or "threw" (it raised to the caller).                          *)

NoInitializer == [id |-> 0, fn |-> NoFn, args |-> <<>>]

\* Frame whose result and error are fields of the pipeline rather than
\* locals of the call: an execution starts with what the execution of that
\* pipeline before it has left there.
FrameInherits(p, mode) ==
  LET earlier == {e \in DOMAIN frames : frames[e].pipeline = p}
      last == CHOOSE e \in earlier : \A x \in earlier : x <= e
  IN  [pipeline |-> p, mode |-> mode, pc |-> "loop", i |-> 0,
       result |-> IF earlier = {} THEN Undefined ELSE frames[last].result,
       error |-> IF earlier = {} THEN Null ELSE frames[last].error,
       awaiting |-> Undefined, outcome |-> Return(Undefined), log |-> <<>>,
       call |-> "running"]

Frame(p, mode) ==
  [pipeline |-> p, mode |-> mode, pc |-> "loop", i |-> 0,
   result |-> Undefined, error |-> Null, awaiting |-> Undefined,
   outcome |-> Return(Undefined), log |-> <<>>, call |-> "running"]

\* `if (error)`: the execution is in the error state.
Errored(f) == ToBoolean(f.error)

\* this.isLazy && this.lazyInitializer ? this.lazyInitializer() : this.initialValue
Seed(this) ==
  IF this.isLazy /\ this.lazyInitializer # NoInitializer
  THEN LET o == Call(this.lazyInitializer.fn, this.lazyInitializer.args)
       IN  [out |-> o,
            evs |-> <<InvocationOf(this.lazyInitializer.id, "producer", 0,
                                   this.lazyInitializer.args, o)>>]
  ELSE [out |-> Return(this.initialValue), evs |-> <<>>]

\* runSeed that keeps the seed of the first execution and reuses it.
runSeedMemoizes(this, f) ==
  LET done == {e \in DOMAIN frames : frames[e].pipeline = f.pipeline /\ frames[e].log # <<>>}
      s == Seed(this)
  IN  IF done # {}
      THEN [f EXCEPT !.result = frames[CHOOSE e \in done : TRUE].log[1].val]
      ELSE IF s.out.threw
           THEN [f EXCEPT !.error = s.out.val, !.log = @ \o s.evs]
           ELSE [f EXCEPT !.result = s.out.val, !.log = @ \o s.evs]

\* runSeed that evaluates the lazy initializer expression a second time to
\* obtain the value.
runSeedTwice(this, f) ==
  LET s == Seed(this)
  IN  IF s.out.threw
      THEN [f EXCEPT !.error = s.out.val, !.log = @ \o s.evs]
      ELSE [f EXCEPT !.result = s.out.val, !.log = @ \o s.evs \o s.evs]

\* run(): the locals after the lazy initializer has been tried.
runSeed(this, f) ==
  LET s == Seed(this)
  IN  IF s.out.threw
      THEN [f EXCEPT !.error = s.out.val, !.log = @ \o s.evs]
      ELSE [f EXCEPT !.result = s.out.val, !.log = @ \o s.evs]

\* runOp with `error = null` left out after a handler has returned.
runOpKeepsError(f, op) ==
  LET at == f.i + 1
  IN  IF Errored(f)
      THEN IF isErrorHandler(op)
           THEN LET o == Apply(op.handler, f.error)
                    ev == Invocation(op.id, "handler", at, f.error, o)
                IN  IF o.threw
                    THEN [f EXCEPT !.i = at, !.error = o.val, !.log = Append(@, ev)]
                    ELSE [f EXCEPT !.i = at, !.result = o.val, !.log = Append(@, ev)]
           ELSE [f EXCEPT !.i = at]
      ELSE IF isErrorHandler(op)
           THEN [f EXCEPT !.i = at]
           ELSE LET r == Invoke(op, at, f.result)
                IN  IF r.out.threw
                    THEN [f EXCEPT !.i = at, !.error = r.out.val, !.log = @ \o r.evs]
                    ELSE [f EXCEPT !.i = at, !.result = r.out.val, !.log = @ \o r.evs]

\* runOp that, when a Transform fails, hands the failure to a handler found
\* anywhere in the list, also in front of the failing step.
runOpSearchesFromStart(f, op) ==
  LET at == f.i + 1
      ops == pipelines[f.pipeline].operations
      before == {j \in 1 .. (at - 1) : isErrorHandler(ops[j])}
  IN  IF Errored(f)
      THEN IF isErrorHandler(op)
           THEN LET o == Apply(op.handler, f.error)
                    ev == Invocation(op.id, "handler", at, f.error, o)
                IN  IF o.threw
                    THEN [f EXCEPT !.i = at, !.error = o.val, !.log = Append(@, ev)]
                    ELSE [f EXCEPT !.i = at, !.result = o.val, !.error = Null,
                                   !.log = Append(@, ev)]
           ELSE [f EXCEPT !.i = at]
      ELSE IF isErrorHandler(op)
           THEN [f EXCEPT !.i = at]
           ELSE LET r == Invoke(op, at, f.result)
                IN  IF r.out.threw
                    THEN IF before # {} /\ ToBoolean(r.out.val)
                         THEN LET j == CHOOSE j \in before : \A j2 \in before : j2 <= j
                                  o == Apply(ops[j].handler, r.out.val)
                                  ev == Invocation(ops[j].id, "handler", j, r.out.val, o)
                              IN  IF o.threw
                                  THEN [f EXCEPT !.i = at, !.error = o.val,
                                                 !.log = Append(@ \o r.evs, ev)]
                                  ELSE [f EXCEPT !.i = at, !.result = o.val,
                                                 !.log = Append(@ \o r.evs, ev)]
                         ELSE [f EXCEPT !.i = at, !.error = r.out.val, !.log = @ \o r.evs]
                    ELSE [f EXCEPT !.i = at, !.result = r.out.val, !.log = @ \o r.evs]

\* runOp that tests isErrorHandler(op) before `if (error)`: a handler is
\* invoked whenever it is walked.
runOpHandlesAlways(f, op) ==
  LET at == f.i + 1
  IN  IF isErrorHandler(op)
      THEN LET o == Apply(op.handler, f.error)
               ev == Invocation(op.id, "handler", at, f.error, o)
           IN  IF o.threw
               THEN [f EXCEPT !.i = at, !.error = o.val, !.log = Append(@, ev)]
               ELSE [f EXCEPT !.i = at, !.result = o.val, !.error = Null,
                              !.log = Append(@, ev)]
      ELSE IF Errored(f)
           THEN [f EXCEPT !.i = at]
           ELSE LET r == Invoke(op, at, f.result)
                IN  IF r.out.threw
                    THEN [f EXCEPT !.i = at, !.error = r.out.val, !.log = @ \o r.evs]
                    ELSE [f EXCEPT !.i = at, !.result = r.out.val, !.log = @ \o r.evs]

\* runOp that ends the walk with the handler's value once a handler has
\* returned, as the executors of version 1 did.
runOpReturnsAtHandler(f, op) ==
  LET at == f.i + 1
  IN  IF Errored(f)
      THEN IF isErrorHandler(op)
           THEN LET o == Apply(op.handler, f.error)
                    ev == Invocation(op.id, "handler", at, f.error, o)
                IN  IF o.threw
                    THEN [f EXCEPT !.i = at, !.error = o.val, !.log = Append(@, ev)]
                    ELSE [f EXCEPT !.i = Len(pipelines[f.pipeline].operations),
                                   !.result = o.val, !.error = Null,
                                   !.log = Append(@, ev)]
           ELSE [f EXCEPT !.i = at]
      ELSE IF isErrorHandler(op)
           THEN [f EXCEPT !.i = at]
           ELSE LET r == Invoke(op, at, f.result)
                IN  IF r.out.threw
                    THEN [f EXCEPT !.i = at, !.error = r.out.val, !.log = @ \o r.evs]
                    ELSE [f EXCEPT !.i = at, !.result = r.out.val, !.log = @ \o r.evs]

\* runOp that drops the failure of a failing handler and goes on error-free.
runOpSwallowsHandlerFailure(f, op) ==
  LET at == f.i + 1
  IN  IF Errored(f)
      THEN IF isErrorHandler(op)
           THEN LET o == Apply(op.handler, f.error)
                    ev == Invocation(op.id, "handler", at, f.error, o)
                IN  IF o.threw
                    THEN [f EXCEPT !.i = at, !.error = Null, !.log = Append(@, ev)]
                    ELSE [f EXCEPT !.i = at, !.result = o.val, !.error = Null,
                                   !.log = Append(@, ev)]
           ELSE [f EXCEPT !.i = at]
      ELSE IF isErrorHandler(op)
           THEN [f EXCEPT !.i = at]
           ELSE LET r == Invoke(op, at, f.result)
                IN  IF r.out.threw
                    THEN [f EXCEPT !.i = at, !.error = r.out.val, !.log = @ \o r.evs]
                    ELSE [f EXCEPT !.i = at, !.result = r.out.val, !.log = @ \o r.evs]

\* runOp that stays at a handler that has failed, to walk it again with the
\* new failure, instead of moving on.
runOpStaysAtFailedHandler(f, op) ==
  LET at == f.i + 1
  IN  IF Errored(f)
      THEN IF isErrorHandler(op)
           THEN LET o == Apply(op.handler, f.error)
                    ev == Invocation(op.id, "handler", at, f.error, o)
                IN  IF o.threw
                    THEN [f EXCEPT !.error = o.val]
                    ELSE [f EXCEPT !.i = at, !.result = o.val, !.error = Null,
                                   !.log = Append(@, ev)]
           ELSE [f EXCEPT !.i = at]
      ELSE IF isErrorHandler(op)
           THEN [f EXCEPT !.i = at]
           ELSE LET r == Invoke(op, at, f.result)
                IN  IF r.out.threw
                    THEN [f EXCEPT !.i = at, !.error = r.out.val, !.log = @ \o r.evs]
                    ELSE [f EXCEPT !.i = at, !.result = r.out.val, !.log = @ \o r.evs]

\* runOp that tries a failing operation or handler a second time.
runOpRetries(f, op) ==
  LET at == f.i + 1
  IN  IF Errored(f)
      THEN IF isErrorHandler(op)
           THEN LET o == Apply(op.handler, f.error)
                    ev == Invocation(op.id, "handler", at, f.error, o)
                IN  IF o.threw
                    THEN [f EXCEPT !.i = at, !.error = o.val, !.log = @ \o <<ev, ev>>]
                    ELSE [f EXCEPT !.i = at, !.result = o.val, !.error = Null,
                                   !.log = Append(@, ev)]
           ELSE [f EXCEPT !.i = at]
      ELSE IF isErrorHandler(op)
           THEN [f EXCEPT !.i = at]
           ELSE LET r == Invoke(op, at, f.result)
                IN  IF r.out.threw
                    THEN [f EXCEPT !.i = at, !.error = r.out.val, !.log = @ \o r.evs \o r.evs]
                    ELSE [f EXCEPT !.i = at, !.result = r.out.val, !.log = @ \o r.evs]

\* runOp without the skip of Transforms in the error state: the operation is
\* applied to the value the execution holds.
runOpAppliesInErrorState(f, op) ==
  LET at == f.i + 1
  IN  IF Errored(f) /\ isErrorHandler(op)
      THEN LET o == Apply(op.handler, f.error)
               ev == Invocation(op.id, "handler", at, f.error, o)
           IN  IF o.threw
               THEN [f EXCEPT !.i = at, !.error = o.val, !.log = Append(@, ev)]
               ELSE [f EXCEPT !.i = at, !.result = o.val, !.error = Null,
                              !.log = Append(@, ev)]
      ELSE IF isErrorHandler(op)
           THEN [f EXCEPT !.i = at]
           ELSE LET r == Invoke(op, at, f.result)
                IN  IF r.out.threw
                    THEN [f EXCEPT !.i = at, !.error = r.out.val, !.log = @ \o r.evs]
                    ELSE [f EXCEPT !.i = at, !.result = r.out.val, !.log = @ \o r.evs]

\* runOp that keeps the first failure of the execution and hands that one to
\* every handler.
runOpPassesFirstFailure(f, op) ==
  LET at == f.i + 1
      raised == {k \in DOMAIN f.log : f.log[k].threw}
      first == IF raised = {} THEN f.error
               ELSE f.log[CHOOSE k \in raised : \A j \in raised : k <= j].val
  IN  IF Errored(f)
      THEN IF isErrorHandler(op)
           THEN LET o == Apply(op.handler, first)
                    ev == Invocation(op.id, "handler", at, first, o)
                IN  IF o.threw
                    THEN [f EXCEPT !.i = at, !.error = o.val, !.log = Append(@, ev)]
                    ELSE [f EXCEPT !.i = at, !.result = o.val, !.error = Null,
                                   !.log = Append(@, ev)]
           ELSE [f EXCEPT !.i = at]
      ELSE IF isErrorHandler(op)
           THEN [f EXCEPT !.i = at]
           ELSE LET r == Invoke(op, at, f.result)
                IN  IF r.out.threw
                    THEN [f EXCEPT !.i = at, !.error = r.out.val, !.log = @ \o r.evs]
                    ELSE [f EXCEPT !.i = at, !.result = r.out.val, !.log = @ \o r.evs]

\* run(): one iteration of `for (const op of this.operations)`.
runOp(f, op) ==
  LET at == f.i + 1
  IN  IF Errored(f)
      THEN IF isErrorHandler(op)
           THEN LET o == Apply(op.handler, f.error)
                    ev == Invocation(op.id, "handler", at, f.error, o)
                IN  IF o.threw
                    THEN [f EXCEPT !.i = at, !.error = o.val, !.log = Append(@, ev)]
                    ELSE [f EXCEPT !.i = at, !.result = o.val, !.error = Null,
                                   !.log = Append(@, ev)]
           ELSE [f EXCEPT !.i = at]
      ELSE IF isErrorHandler(op)
           THEN [f EXCEPT !.i = at]
           ELSE LET r == Invoke(op, at, f.result)
                IN  IF r.out.threw
                    THEN [f EXCEPT !.i = at, !.error = r.out.val, !.log = @ \o r.evs]
                    ELSE [f EXCEPT !.i = at, !.result = r.out.val, !.log = @ \o r.evs]

\* runReturn that raises a new Error wrapping the stored failure.
runReturnWraps(f) ==
  IF Errored(f)
  THEN [f EXCEPT !.pc = "threw", !.outcome = Throw(Err(0)), !.call = "threw"]
  ELSE [f EXCEPT !.pc = "returned", !.outcome = Return(f.result), !.call = "returned"]

\* run(): `if (error) throw error; return result`.
runReturn(f) ==
  IF Errored(f)
  THEN [f EXCEPT !.pc = "threw", !.outcome = Throw(f.error), !.call = "threw"]
  ELSE [f EXCEPT !.pc = "returned", !.outcome = Return(f.result), !.call = "returned"]

\* The invocations a step of frame f to frame g has made.
NewCalls(f, g) == Count(SubSeq(g.log, Len(f.log) + 1, Len(g.log)))

run(p) ==
  /\ Idle
  /\ p \in DOMAIN pipelines
  /\ LET f == Frame(p, "run")
         g == runSeed(pipelines[p], f)
     IN  /\ frames' = Append(frames, g)
         /\ calls' = calls (+) NewCalls(f, g)
  /\ UNCHANGED pipelines

runLoop(e) ==
  /\ e \in DOMAIN frames
  /\ frames[e].mode = "run"
  /\ frames[e].pc = "loop"
  /\ frames[e].i < Len(pipelines[frames[e].pipeline].operations)
  /\ LET f == frames[e]
         g == runOp(f, pipelines[f.pipeline].operations[f.i + 1])
     IN  /\ frames' = [frames EXCEPT ![e] = g]
         /\ calls' = calls (+) NewCalls(f, g)
  /\ UNCHANGED pipelines

runEnd(e) ==
  /\ e \in DOMAIN frames
  /\ frames[e].mode = "run"
  /\ frames[e].pc = "loop"
  /\ frames[e].i = Len(pipelines[frames[e].pipeline].operations)
  /\ frames' = [frames EXCEPT ![e] = runReturn(frames[e])]
  /\ UNCHANGED <<pipelines, calls>>

-----------------------------------------------------------------------------
(* runAsync(): the same walk, suspended at every `await`.                  *)

\* `await v`: v itself unless it is a Promise, then what the Promise settles with.
Await(v) ==
  CASE v.p = "plain" -> Return(v)
    [] v.p = "fulfilled" -> Return(Plain(v))
    [] v.p = "rejected" -> Throw(Plain(v))

\* runAsyncSeed without the try block around the lazy initializer, in a
\* function that is not async: what the producer raises escapes to the caller.
runAsyncSeedEscapes(this, f) ==
  LET s == Seed(this)
  IN  IF s.out.threw
      THEN [f EXCEPT !.pc = "threw", !.outcome = s.out, !.log = @ \o s.evs, !.call = "threw"]
      ELSE IF s.evs = <<>>
           THEN [f EXCEPT !.result = s.out.val]
           ELSE [f EXCEPT !.pc = "awaitSeed", !.awaiting = s.out.val, !.log = @ \o s.evs,
                          !.call = "returned"]

\* runAsync(): the lazy initializer is invoked and its result awaited.
runAsyncSeed(this, f) ==
  LET s == Seed(this)
  IN  IF s.out.threw
      THEN [f EXCEPT !.error = s.out.val, !.log = @ \o s.evs]
      ELSE IF s.evs = <<>>
           THEN [f EXCEPT !.result = s.out.val]
           ELSE [f EXCEPT !.pc = "awaitSeed", !.awaiting = s.out.val, !.log = @ \o s.evs,
                          !.call = "returned"]

\* runAsyncOp with `result = op(result)`, the await left out.
runAsyncOpNoAwait(f, op) ==
  LET at == f.i + 1
  IN  IF Errored(f)
      THEN IF isErrorHandler(op)
           THEN LET o == Apply(op.handler, f.error)
                    ev == Invocation(op.id, "handler", at, f.error, o)
                IN  IF o.threw
                    THEN [f EXCEPT !.i = at, !.error = o.val, !.log = Append(@, ev)]
                    ELSE [f EXCEPT !.pc = "awaitOp", !.awaiting = o.val,
                                   !.log = Append(@, ev), !.call = "returned"]
           ELSE [f EXCEPT !.i = at]
      ELSE IF isErrorHandler(op)
           THEN [f EXCEPT !.i = at]
           ELSE LET r == Invoke(op, at, f.result)
                IN  IF r.out.threw
                    THEN [f EXCEPT !.i = at, !.error = r.out.val, !.log = @ \o r.evs]
                    ELSE [f EXCEPT !.i = at, !.result = r.out.val, !.log = @ \o r.evs]

\* runAsync(): one iteration of the loop, up to its `await`.
runAsyncOp(f, op) ==
  LET at == f.i + 1
  IN  IF Errored(f)
      THEN IF isErrorHandler(op)
           THEN LET o == Apply(op.handler, f.error)
                    ev == Invocation(op.id, "handler", at, f.error, o)
                IN  IF o.threw
                    THEN [f EXCEPT !.i = at, !.error = o.val, !.log = Append(@, ev)]
                    ELSE [f EXCEPT !.pc = "awaitOp", !.awaiting = o.val,
                                   !.log = Append(@, ev), !.call = "returned"]
           ELSE [f EXCEPT !.i = at]
      ELSE IF isErrorHandler(op)
           THEN [f EXCEPT !.i = at]
           ELSE LET r == Invoke(op, at, f.result)
                IN  IF r.out.threw
                    THEN [f EXCEPT !.i = at, !.error = r.out.val, !.log = @ \o r.evs]
                    ELSE [f EXCEPT !.pc = "awaitOp", !.awaiting = r.out.val,
                                   !.log = @ \o r.evs, !.call = "returned"]

\* runAsyncSettle with `error = null` left out after a handler's result has
\* settled.
runAsyncSettleKeepsError(f) ==
  LET a == Await(f.awaiting)
      g == [f EXCEPT !.pc = "loop", !.awaiting = Undefined,
                     !.i = IF f.pc = "awaitOp" THEN f.i + 1 ELSE f.i]
  IN  IF a.threw
      THEN [g EXCEPT !.error = a.val]
      ELSE [g EXCEPT !.result = a.val]

\* runAsync(): the awaited value has settled and the frame resumes.
runAsyncSettle(f) ==
  LET a == Await(f.awaiting)
      g == [f EXCEPT !.pc = "loop", !.awaiting = Undefined,
                     !.i = IF f.pc = "awaitOp" THEN f.i + 1 ELSE f.i]
  IN  IF a.threw
      THEN [g EXCEPT !.error = a.val]
      ELSE IF f.pc = "awaitOp" /\ Errored(f)
           THEN [g EXCEPT !.result = a.val, !.error = Null]
           ELSE [g EXCEPT !.result = a.val]

\* runAsync(): `if (error) throw error; return result` of an async function:
\* the call returns the Promise, which rejects with what the body raises and
\* resolves with what it returns.
runAsyncReturn(f) ==
  IF Errored(f)
  THEN [f EXCEPT !.pc = "threw", !.outcome = Throw(f.error), !.call = "returned"]
  ELSE LET a == Await(f.result)
       IN  [f EXCEPT !.pc = IF a.threw THEN "threw" ELSE "returned", !.outcome = a,
                      !.call = "returned"]

runAsync(p) ==
  /\ Idle
  /\ p \in DOMAIN pipelines
  /\ LET f == Frame(p, "runAsync")
         g == runAsyncSeed(pipelines[p], f)
     IN  /\ frames' = Append(frames, g)
         /\ calls' = calls (+) NewCalls(f, g)
  /\ UNCHANGED pipelines

runAsyncLoop(e) ==
  /\ e \in DOMAIN frames
  /\ frames[e].mode = "runAsync"
  /\ frames[e].pc = "loop"
  /\ frames[e].i < Len(pipelines[frames[e].pipeline].operations)
  /\ LET f == frames[e]
         g == runAsyncOp(f, pipelines[f.pipeline].operations[f.i + 1])
     IN  /\ frames' = [frames EXCEPT ![e] = g]
         /\ calls' = calls (+) NewCalls(f, g)
  /\ UNCHANGED pipelines

\* runAsyncResume that keeps `error` in a field of the class instead of a
\* local: the resumed execution finds the error that the execution started
\* last has left there.
runAsyncResumeShared(e) ==
  /\ Idle
  /\ e \in DOMAIN frames
  /\ frames[e].pc \in {"awaitSeed", "awaitOp"}
  /\ LET others == DOMAIN frames \ {e}
         x == IF others = {} THEN e ELSE CHOOSE x \in others : \A y \in others : y <= x
         seen == [frames[e] EXCEPT !.error = frames[x].error]
     IN  frames' = [frames EXCEPT ![e] = runAsyncSettle(seen)]
  /\ UNCHANGED <<pipelines, calls>>

runAsyncResume(e) ==
  /\ Idle
  /\ e \in DOMAIN frames
  /\ frames[e].pc \in {"awaitSeed", "awaitOp"}
  /\ frames' = [frames EXCEPT ![e] = runAsyncSettle(frames[e])]
  /\ UNCHANGED <<pipelines, calls>>

runAsyncEnd(e) ==
  /\ e \in DOMAIN frames
  /\ frames[e].mode = "runAsync"
  /\ frames[e].pc = "loop"
  /\ frames[e].i = Len(pipelines[frames[e].pipeline].operations)
  /\ frames' = [frames EXCEPT ![e] = runAsyncReturn(frames[e])]
  /\ UNCHANGED <<pipelines, calls>>

-----------------------------------------------------------------------------
(* A whole execution as a function of the pipeline: the frame that run()   *)
(* or runAsync() ends in when nothing else is interleaved with it.         *)

RECURSIVE runWalk(_, _)
runWalk(f, ops) ==
  IF f.i = Len(ops) THEN runReturn(f) ELSE runWalk(runOp(f, ops[f.i + 1]), ops)

RECURSIVE runAsyncWalk(_, _)
runAsyncWalk(f, ops) ==
  IF f.pc \in {"awaitSeed", "awaitOp"} THEN runAsyncWalk(runAsyncSettle(f), ops)
  ELSE IF f.i = Len(ops) THEN runAsyncReturn(f)
  ELSE runAsyncWalk(runAsyncOp(f, ops[f.i + 1]), ops)

Execution(this, mode) ==
  IF mode = "run"
  THEN runWalk(runSeed(this, Frame(0, mode)), this.operations)
  ELSE runAsyncWalk(runAsyncSeed(this, Frame(0, mode)), this.operations)

-----------------------------------------------------------------------------
(* The callers' functions of the error-handling scenarios: a producer or   *)
(* transform that returns or raises (or, for the producer, returns a       *)
(* Promise that rejects), a handler that recovers or raises.  Raised       *)
(* values are Error objects and values that are not.                       *)

Producers == {Const(Num(1)), Thrower(Err(1)), Thrower(Null), Rejecter(Err(1))}
Transforms == {Succ, Thrower(Err(1)), Thrower(Num(0))}
Handlers == {Const(Num(2)), Thrower(Err(2)), Thrower(Undefined)}

Init ==
  /\ pipelines = <<>>
  /\ frames = <<>>
  /\ calls = EmptyBag

\* The pipeline that the chain of builder calls has produced so far.
Last == Len(pipelines)

\* One fluent chain gluify(fn).pipe(..).catch(..) of at most MaxSteps steps is
\* built and then executed.
CanStart == pipelines = <<>>
CanAppend == frames = <<>> /\ pipelines # <<>> /\ Len(pipelines[Last].operations) < MaxSteps
CanRun == pipelines # <<>> /\ Len(frames) < MaxRuns

Build ==
  \/ \E fn \in Producers : CanStart /\ gluify(fn)
  \/ \E fn \in Transforms : CanAppend /\ pipe(Last, fn)
  \/ \E handler \in Handlers : CanAppend /\ catch(Last, handler)

Execute ==
  \/ CanRun /\ run(Last)
  \/ \E e \in DOMAIN frames : runLoop(e)
  \/ \E e \in DOMAIN frames : runEnd(e)
  \/ CanRun /\ runAsync(Last)
  \/ \E e \in DOMAIN frames : runAsyncLoop(e)
  \/ \E e \in DOMAIN frames : runAsyncResume(e)
  \/ \E e \in DOMAIN frames : runAsyncEnd(e)

Next == Build \/ Execute

Spec == Init /\ [][Next]_vars

-----------------------------------------------------------------------------
(* Chains built with every kind of builder call, then executed.            *)

LazyProducers == {Const(Num(1)), Const(Arr(<<Num(1), Num(2)>>))}

BuildAny ==
  \/ \E fn \in LazyProducers : CanStart /\ gluify(fn)
  \/ CanAppend /\ pipe(Last, Succ)
  \/ CanAppend /\ pipeAsync(Last, Succ)
  \/ CanAppend /\ tap(Last, Succ)
  \/ CanAppend /\ catch(Last, Const(Num(2)))
  \/ CanAppend /\ recover(Last, Num(0))
  \/ CanAppend /\ when(Last, GreaterThan(1), Succ)
  \/ CanAppend /\ map(Last, Succ)

NextLazy == BuildAny \/ Execute

SpecLazy == Init /\ [][NextLazy]_vars

-----------------------------------------------------------------------------
(* One chain, executed with run() up to MaxReruns times.                   *)

\* Number of run() calls made on the pipeline.
MaxReruns == 3

CanRerun == pipelines # <<>> /\ Len(frames) < MaxReruns

NextRerun ==
  \/ CanStart /\ gluify(Const(Num(1)))
  \/ \E fn \in {Succ, Thrower(Err(1))} : CanAppend /\ pipe(Last, fn)
  \/ CanAppend /\ tap(Last, Succ)
  \/ CanAppend /\ when(Last, GreaterThan(1), Succ)
  \/ CanAppend /\ catch(Last, Const(Num(2)))
  \/ CanRerun /\ run(Last)
  \/ \E e \in DOMAIN frames : runLoop(e)
  \/ \E e \in DOMAIN frames : runEnd(e)

SpecRerun == Init /\ [][NextRerun]_vars

-----------------------------------------------------------------------------
(* Vocabulary of the properties.                                           *)

Ops(f) == pipelines[f.pipeline].operations

Completed(f) == f.pc \in {"returned", "threw"}

Suspended(f) == f.pc \in {"awaitSeed", "awaitOp"}

\* The invocation ended in a failure: the function raised, or, under
\* runAsync(), returned a deferred value that rejects.
Failed(f, ev) == ev.threw \/ (f.mode = "runAsync" /\ ev.val.p = "rejected")

\* The value the invocation failed with.
Failure(ev) == Plain(ev.val)

\* The handlers invoked, and the producer and Transforms invoked.
HandlerCalls(f) == {k \in DOMAIN f.log : f.log[k].role = "handler"}

StepCalls(f) == {k \in DOMAIN f.log : f.log[k].role \in {"producer", "op"}}

\* What the executor itself has invoked: the producer, operations, handlers.
ExecCalls(f) == StepCalls(f) \cup HandlerCalls(f)

HandlersBetween(f, lo, hi) == {j \in (lo + 1) .. (hi - 1) : isErrorHandler(Ops(f)[j])}

\* The execution has walked operation j (and is not suspended inside it).
Walked(f, j) == j <= f.i

-----------------------------------------------------------------------------
\* C1: in the error state the first ErrorHandler walked after the failing step
\* is the one invoked (a handler is only ever invoked right after a failure,
\* with no other handler between the failing step and it, and an execution in
\* the error state has no walked handler behind it that was passed over); and
\* once a handler has returned normally no later handler is invoked unless a
\* new failure occurs between them.
C1_FirstHandlerHandles ==
  \A e \in DOMAIN frames :
    LET f == frames[e]
    IN  /\ \A k \in HandlerCalls(f) :
             /\ k > 1
             /\ Failed(f, f.log[k - 1])
             /\ HandlersBetween(f, f.log[k - 1].at, f.log[k].at) = {}
        /\ (Errored(f) /\ f.pc # "awaitOp") =>
             /\ f.log # <<>>
             /\ Failed(f, f.log[Len(f.log)])
             /\ HandlersBetween(f, f.log[Len(f.log)].at, f.i + 1) = {}
        /\ \A k, k2 \in HandlerCalls(f) :
             (k < k2 /\ ~Failed(f, f.log[k])) =>
               \E m \in ExecCalls(f) : k < m /\ m < k2 /\ Failed(f, f.log[m])

\* A completed execution of fail -> catch(h1) -> catch(h2): h1 was invoked and
\* returned, h2 was walked and not invoked.
C1_Witness ==
  \E e \in DOMAIN frames :
    LET f == frames[e]
    IN  /\ Completed(f)
        /\ Cardinality({j \in DOMAIN Ops(f) : isErrorHandler(Ops(f)[j])}) >= 2
        /\ Cardinality(HandlerCalls(f)) = 1
        /\ \A k \in HandlerCalls(f) :
             /\ ~f.log[k].threw
             /\ \E j \in DOMAIN Ops(f) : j > f.log[k].at /\ isErrorHandler(Ops(f)[j])
        /\ f.outcome = Return(Num(2))

\* C2: when a handler H1 invoked for a failure itself fails, the execution
\* stays in the error state with H1's failure stored, the next invocation is
\* that of the next ErrorHandler H2 (every Transform before it is skipped) with
\* H1's failure; if H2 returns normally the value is H2's output and the error
\* is cleared; and H1 has been invoked exactly once.
C2_FailedHandlerPassesOn ==
  \A e \in DOMAIN frames :
    LET f == frames[e]
    IN  \A k \in HandlerCalls(f) :
          Failed(f, f.log[k]) =>
            LET h1 == f.log[k]
                later == {j \in DOMAIN Ops(f) : j > h1.at /\ isErrorHandler(Ops(f)[j])}
            IN  /\ (k = Len(f.log) /\ ~Suspended(f)) =>
                     (Errored(f) /\ f.error = Failure(h1))
                /\ \A j \in later :
                     (Walked(f, j) /\ HandlersBetween(f, h1.at, j) = {}) =>
                       /\ k < Len(f.log)
                       /\ f.log[k + 1].role = "handler"
                       /\ f.log[k + 1].at = j
                       /\ f.log[k + 1].arg = Failure(h1)
                       /\ (~Failed(f, f.log[k + 1]) /\ f.i = j) =>
                            (~Errored(f) /\ f.result = Plain(f.log[k + 1].val))
                       /\ (~Failed(f, f.log[k + 1]) /\ Completed(f) /\ j = Len(Ops(f))) =>
                            f.outcome = Return(Plain(f.log[k + 1].val))
                /\ Cardinality({m \in DOMAIN f.log : f.log[m].id = h1.id}) = 1

\* C3: after the seed producer or a Transform fails, every later invocation of
\* a Transform lies behind the next ErrorHandler (none between the failing step
\* and that handler is invoked, and none at all when there is no later handler),
\* and without a later handler the execution fails instead of returning.
C3_FailureSkipsTransforms ==
  \A e \in DOMAIN frames :
    LET f == frames[e]
    IN  \A k \in StepCalls(f) :
          Failed(f, f.log[k]) =>
            LET later == {j \in DOMAIN Ops(f) : j > f.log[k].at /\ isErrorHandler(Ops(f)[j])}
            IN  /\ \A m \in StepCalls(f) :
                     m > k => \E j \in later : j < f.log[m].at
                /\ (later = {} /\ Completed(f)) => f.pc = "threw"

\* C4: every value raised by a caller-supplied function, whatever it is, puts
\* the execution in the error state with that value stored: the next function
\* invoked is an ErrorHandler, with that value, no walked handler is passed
\* over, and an execution that completes without a further invocation raises
\* that value.
C4_EveryRaisedValueFails ==
  \A e \in DOMAIN frames :
    LET f == frames[e]
    IN  \A k \in ExecCalls(f) :
          Failed(f, f.log[k]) =>
            /\ (k = Len(f.log) /\ ~Suspended(f)) =>
                 /\ Errored(f)
                 /\ f.error = Failure(f.log[k])
                 /\ HandlersBetween(f, f.log[k].at, f.i + 1) = {}
            /\ k < Len(f.log) =>
                 /\ f.log[k + 1].role = "handler"
                 /\ f.log[k + 1].arg = Failure(f.log[k])
            /\ (k = Len(f.log) /\ Completed(f)) =>
                 (f.pc = "threw" /\ f.outcome = Throw(Failure(f.log[k])))

\* C5: a handler is only ever invoked with the failure raised by the invocation
\* just before it, and every handler invoked after a failure raised at step i
\* sits at a step index greater than i: a handler appended before the failing
\* step is never invoked for that failure.
C5_OnlyLaterHandlers ==
  \A e \in DOMAIN frames :
    LET f == frames[e]
    IN  /\ \A k \in HandlerCalls(f) :
             /\ k > 1
             /\ Failed(f, f.log[k - 1])
             /\ f.log[k].arg = Failure(f.log[k - 1])
        /\ \A m \in ExecCalls(f) : \A k \in HandlerCalls(f) :
             (m < k /\ Failed(f, f.log[m])) => f.log[k].at > f.log[m].at

\* A completed execution of catch(h0) -> failing pipe -> catch(h1): h1 was
\* invoked with the failure, h0 was not invoked.
C5_Witness ==
  \E e \in DOMAIN frames :
    LET f == frames[e]
    IN  /\ Completed(f)
        /\ \E j0, i, j1 \in DOMAIN Ops(f) :
             /\ j0 < i /\ i < j1
             /\ isErrorHandler(Ops(f)[j0]) /\ isErrorHandler(Ops(f)[j1])
             /\ \E m \in StepCalls(f) : f.log[m].at = i /\ Failed(f, f.log[m])
             /\ \E k \in HandlerCalls(f) : f.log[k].at = j1
             /\ \A k \in HandlerCalls(f) : f.log[k].at # j0

WithoutHandlers(this) ==
  [this EXCEPT !.operations = SelectSeq(@, LAMBDA op : ~isErrorHandler(op))]

\* C6: as long as the producer and every Transform invoked have succeeded no
\* ErrorHandler has been invoked, and the execution completes with the outcome
\* of the same pipeline with its ErrorHandler steps removed.
C6_HandlersInertWithoutFailure ==
  \A e \in DOMAIN frames :
    LET f == frames[e]
    IN  (\A k \in StepCalls(f) : ~Failed(f, f.log[k])) =>
          /\ HandlerCalls(f) = {}
          /\ Completed(f) =>
               LET g == Execution(WithoutHandlers(pipelines[f.pipeline]), f.mode)
               IN  f.pc = g.pc /\ f.outcome = g.outcome

\* A completed failure-free execution of a pipeline that has a handler in
\* front of a Transform.
C6_Witness ==
  \E e \in DOMAIN frames :
    LET f == frames[e]
    IN  /\ Completed(f)
        /\ \A k \in ExecCalls(f) : ~Failed(f, f.log[k])
        /\ \E j, i \in DOMAIN Ops(f) :
             j < i /\ isErrorHandler(Ops(f)[j]) /\ ~isErrorHandler(Ops(f)[i])
        /\ f.outcome = Return(Num(3))

\* The execution of `ops` started error-free from value v.
Continue(v, ops, mode) ==
  IF mode = "run"
  THEN runWalk([Frame(0, mode) EXCEPT !.result = v], ops)
  ELSE runAsyncWalk([Frame(0, mode) EXCEPT !.result = v], ops)

\* C7: when an ErrorHandler has returned normally the error is cleared and the
\* value is the handler's return value, and the execution completes with the
\* outcome of an error-free execution of the operations appended after that
\* handler, started from that value.
C7_RecoveryResumes ==
  \A e \in DOMAIN frames :
    LET f == frames[e]
    IN  \A k \in HandlerCalls(f) :
          ~Failed(f, f.log[k]) =>
            LET j == f.log[k].at
                g == Continue(Plain(f.log[k].val), SubSeq(Ops(f), j + 1, Len(Ops(f))), f.mode)
            IN  /\ (k = Len(f.log) /\ f.i = j) =>
                     (f.error = Null /\ ~Errored(f) /\ f.result = Plain(f.log[k].val))
                /\ Completed(f) => (f.pc = g.pc /\ f.outcome = g.outcome)

\* A completed execution of fail -> catch(() => 2) -> pipe(succ): the result
\* is succ(2).
C7_Witness ==
  \E e \in DOMAIN frames :
    LET f == frames[e]
    IN  /\ Completed(f)
        /\ \E k \in HandlerCalls(f) :
             /\ ~Failed(f, f.log[k])
             /\ k < Len(f.log)
             /\ f.log[k + 1].role = "fn"
             /\ f.log[k + 1].arg = Num(2)
        /\ f.outcome = Return(Num(3))

\* C8: an execution that is in the error state after the last step raises (its
\* Promise rejects with) exactly the stored failure, which is the value of the
\* most recent failure raised: the last invocation made is the one that failed
\* with it.
C8_UnrecoveredFailureIsRaised ==
  \A e \in DOMAIN frames :
    LET f == frames[e]
    IN  (Completed(f) /\ Errored(f)) =>
          /\ f.pc = "threw"
          /\ f.outcome = Throw(f.error)
          /\ f.log # <<>>
          /\ Failed(f, f.log[Len(f.log)])
          /\ f.outcome.val = Failure(f.log[Len(f.log)])

\* A completed execution in which a handler failed after the producer had:
\* the handler's failure is what is raised.
C8_Witness ==
  \E e \in DOMAIN frames :
    LET f == frames[e]
    IN  /\ f.pc = "threw"
        /\ f.log[1].threw /\ f.log[1].val = Err(1)
        /\ f.log[Len(f.log)].role = "handler"
        /\ f.outcome = Throw(Err(2))

Roles == {"producer", "fn", "predicate", "handler"}

\* C9: as long as no execution call has been made, the invocation count of
\* the producer and of every function, predicate and handler given to a
\* builder call is zero.
C9_BuildingInvokesNothing ==
  frames = <<>> =>
    \A p \in DOMAIN pipelines : \A role \in Roles :
      /\ CopiesIn(Counter(pipelines[p].lazyInitializer.id, role), calls) = 0
      /\ \A j \in DOMAIN pipelines[p].operations :
           CopiesIn(Counter(pipelines[p].operations[j].id, role), calls) = 0

\* A chain of when, map and a handler has been built and not executed.
C9_Witness ==
  /\ frames = <<>>
  /\ pipelines # <<>>
  /\ \E i, j, k \in DOMAIN pipelines[Last].operations :
       /\ pipelines[Last].operations[i].kind = "when"
       /\ pipelines[Last].operations[j].kind = "map"
       /\ pipelines[Last].operations[k].kind = "catch"

\* The caller's function that a Transform invokes whenever it is invoked
\* itself ("op" for map, which calls fn once for each element).
Entry(op) ==
  CASE op.kind \in {"pipe", "pipeAsync", "tap"} -> "fn"
    [] op.kind = "when" -> "predicate"
    [] OTHER -> "op"

\* C10: when the only executions so far are k completed run() calls of one
\* pipeline and no function has failed, the producer and every Transform (the
\* operation, and the function given for it) have been invoked exactly k times
\* in total, once by each call.
C10_EveryRunReexecutes ==
  \A p \in DOMAIN pipelines :
    LET this == pipelines[p]
        runs == {e \in DOMAIN frames :
                   frames[e].pipeline = p /\ frames[e].mode = "run" /\ Completed(frames[e])}
        steps == {j \in DOMAIN this.operations : ~isErrorHandler(this.operations[j])}
        Times(f, id, role) ==
          Cardinality({k \in DOMAIN f.log : f.log[k].id = id /\ f.log[k].role = role})
    IN  (/\ runs = DOMAIN frames
         /\ \A e \in runs : \A k \in DOMAIN frames[e].log : ~Failed(frames[e], frames[e].log[k])) =>
          /\ CopiesIn(Counter(this.lazyInitializer.id, "producer"), calls) = Cardinality(runs)
          /\ \A j \in steps : \A role \in {"op", Entry(this.operations[j])} :
               CopiesIn(Counter(this.operations[j].id, role), calls) = Cardinality(runs)
          /\ \A e \in runs :
               /\ Times(frames[e], this.lazyInitializer.id, "producer") = 1
               /\ \A j \in steps : \A role \in {"op", Entry(this.operations[j])} :
                    Times(frames[e], this.operations[j].id, role) = 1

\* Three completed run() calls of a failure-free pipeline with two Transforms.
C10_Witness ==
  /\ Len(frames) = 3
  /\ \A e \in DOMAIN frames :
       /\ frames[e].pc = "returned"
       /\ frames[e].pipeline = Last
       /\ \A k \in DOMAIN frames[e].log : ~frames[e].log[k].threw
  /\ Cardinality({j \in DOMAIN pipelines[Last].operations :
                    ~isErrorHandler(pipelines[Last].operations[j])}) >= 2
  /\ CopiesIn(Counter(pipelines[Last].lazyInitializer.id, "producer"), calls) = 3

-----------------------------------------------------------------------------
(* Chains of pipe Transforms whose order of application shows in the      *)
(* result, executed with run().                                            *)

OrderProducers == {Const(Num(0)), Const(Num(1))}
OrderTransforms == {Succ, Double, Const(Num(3))}

NextOrder ==
  \/ \E fn \in OrderProducers : CanStart /\ gluify(fn)
  \/ \E fn \in OrderTransforms : CanAppend /\ pipe(Last, fn)
  \/ CanRun /\ run(Last)
  \/ \E e \in DOMAIN frames : runLoop(e)
  \/ \E e \in DOMAIN frames : runEnd(e)

SpecOrder == Init /\ [][NextOrder]_vars

\* fn(...f2(f1(s))) for fns = <<f1, f2, ..., fn>>.
RECURSIVE Compose(_, _)
Compose(fns, s) ==
  IF fns = <<>> THEN s ELSE Compose(Tail(fns), Apply(Head(fns), s).val)

\* The operations of a pipeline in the order of the builder calls that made
\* them (a later call makes a function of greater identity).
Appended(this) ==
  LET ops == {this.operations[j] : j \in DOMAIN this.operations}
  IN  [k \in DOMAIN this.operations |->
         CHOOSE op \in ops : Cardinality({o \in ops : o.id < op.id}) = k - 1]

\* The functions given to the pipe calls of a pipeline, in append order.
Fns(this) == [k \in DOMAIN this.operations |-> Appended(this)[k].fn]

\* C11: a completed run() of a pipeline of pipe Transforms f1..fn in which the
\* producer and every Transform succeeded returns fn(...f2(f1(s))), s being
\* what the producer returns; the k-th function invoked is fk, f1 receives s
\* and every other fk receives what f(k-1) returned.
C11_OrderPreserved ==
  \A e \in DOMAIN frames :
    LET f == frames[e]
        this == pipelines[f.pipeline]
        s == Apply(this.lazyInitializer.fn, Undefined).val
        fnCalls == SelectSeq(f.log, LAMBDA ev : ev.role = "fn")
    IN  (/\ f.mode = "run"
         /\ Completed(f)
         /\ \A j \in DOMAIN this.operations : this.operations[j].kind = "pipe"
         /\ \A k \in DOMAIN f.log : ~f.log[k].threw) =>
          /\ f.outcome = Return(Compose(Fns(this), s))
          /\ Len(fnCalls) = Len(this.operations)
          /\ \A k \in DOMAIN fnCalls :
               /\ fnCalls[k].id = Appended(this)[k].id
               /\ fnCalls[k].at = k
               /\ fnCalls[k].arg = IF k = 1 THEN s ELSE fnCalls[k - 1].val

\* run() of gluify(() => 1).pipe(succ).pipe(double).pipe(succ) has returned
\* succ(double(succ(1))) = 1, which no other order of the three gives.
C11_Witness ==
  \E e \in DOMAIN frames :
    LET f == frames[e]
    IN  /\ f.pc = "returned"
        /\ Fns(pipelines[f.pipeline]) = <<Succ, Double, Succ>>
        /\ pipelines[f.pipeline].lazyInitializer.fn = Const(Num(1))
        /\ f.outcome = Return(Num(1))

-----------------------------------------------------------------------------
\* C12: a step that makes a pipeline out of an existing one leaves every
\* existing pipeline, the receiver among them, as it was (same seed, same step
\* list), and the one pipeline it adds has the seed of a receiver and that
\* receiver's step list followed by exactly one step, a new one.
C12_BuildersLeaveReceiver ==
  [][(pipelines' # pipelines /\ pipelines # <<>>) =>
       /\ Len(pipelines') = Len(pipelines) + 1
       /\ SubSeq(pipelines', 1, Len(pipelines)) = pipelines
       /\ \E r \in DOMAIN pipelines :
            LET old == pipelines[r]
                new == pipelines'[Len(pipelines')]
            IN  /\ new.initialValue = old.initialValue
                /\ new.isLazy = old.isLazy
                /\ new.lazyInitializer = old.lazyInitializer
                /\ Len(new.operations) = Len(old.operations) + 1
                /\ SubSeq(new.operations, 1, Len(old.operations)) = old.operations
                /\ \A q \in DOMAIN pipelines : \A j \in DOMAIN pipelines[q].operations :
                     pipelines[q].operations[j].id # new.operations[Len(new.operations)].id]_vars

\* A chain built by three builder calls of different kinds: each pipeline in
\* it still has the steps it was returned with.
C12_Witness ==
  /\ Len(pipelines) = 4
  /\ \A p \in DOMAIN pipelines : Len(pipelines[p].operations) = p - 1
  /\ pipelines[4].operations[1].kind = "when"
  /\ pipelines[4].operations[2].kind = "catch"
  /\ pipelines[4].operations[3].kind = "tap"
  /\ \A p \in DOMAIN pipelines : pipelines[p].lazyInitializer = pipelines[1].lazyInitializer

-----------------------------------------------------------------------------
(* Branching: builder calls on any pipeline built so far, executions of any *)
(* of them, in any order.                                                   *)

\* Number of pipelines built, and of executions started.
MaxPipelines == 4
MaxBranchRuns == 2

CanDerive(r) ==
  /\ r \in DOMAIN pipelines
  /\ Len(pipelines) < MaxPipelines
  /\ Len(pipelines[r].operations) < MaxSteps

CanRunBranch == Len(frames) < MaxBranchRuns

NextBranch ==
  \/ CanStart /\ gluify(Const(Num(1)))
  \/ \E r \in DOMAIN pipelines : CanDerive(r) /\ pipe(r, Succ)
  \/ \E r \in DOMAIN pipelines : CanDerive(r) /\ tap(r, Double)
  \/ \E p \in DOMAIN pipelines : CanRunBranch /\ run(p)
  \/ \E e \in DOMAIN frames : runLoop(e)
  \/ \E e \in DOMAIN frames : runEnd(e)

SpecBranch == Init /\ [][NextBranch]_vars

\* The builder call that returned pipeline p made the function of identity p:
\* the step appended to p, or the producer when p comes from gluify().
Own(p) == p

\* Pipeline a is p or one p is derived from: a's steps are the first of p's.
Derives(a, p) ==
  /\ a \in DOMAIN pipelines
  /\ Len(pipelines[a].operations) <= Len(pipelines[p].operations)
  /\ pipelines[a].operations = SubSeq(pipelines[p].operations, 1, Len(pipelines[a].operations))

\* C13: an execution of pipeline p invokes only functions made by the builder
\* calls p is derived through (never a step appended later to p or to another
\* pipeline derived from one of p's parents), each at the position it has in
\* p's list; a completed failure-free execution has invoked every step of p
\* once, in list order; and a function is counted as invoked only by
\* executions of pipelines that have it.
C13_BranchesDoNotInterfere ==
  /\ \A e \in DOMAIN frames :
       LET f == frames[e]
           opCalls == SelectSeq(f.log, LAMBDA ev : ev.role = "op")
       IN  /\ \A k \in DOMAIN f.log :
                /\ f.log[k].id <= Own(f.pipeline)
                /\ Derives(f.log[k].id, f.pipeline)
                /\ f.log[k].role # "producer" =>
                     /\ f.log[k].at \in DOMAIN Ops(f)
                     /\ Ops(f)[f.log[k].at].id = f.log[k].id
           /\ (Completed(f) /\ \A k \in DOMAIN f.log : ~Failed(f, f.log[k])) =>
                /\ Len(opCalls) = Len(Ops(f))
                /\ \A j \in DOMAIN Ops(f) : opCalls[j].id = Ops(f)[j].id
  /\ \A p \in DOMAIN pipelines : \A role \in Roles \cup {"op"} :
       CopiesIn(Counter(Own(p), role), calls) > 0 =>
         \E e \in DOMAIN frames : Derives(p, frames[e].pipeline)
  /\ \A p \in DOMAIN pipelines : \A j \in DOMAIN pipelines[p].operations :
       /\ pipelines[p].operations[j].id <= Own(p)
       /\ Derives(pipelines[p].operations[j].id, p)

\* P = gluify(..).pipe(..), A = P.pipe(..), B = P.tap(..); P was executed
\* before A and B were built and A after: A's step was invoked once, by A's
\* execution, and B's never.
C13_Witness ==
  /\ Len(pipelines) = 4
  /\ Derives(2, 3) /\ Derives(2, 4) /\ ~Derives(3, 4)
  /\ Len(frames) = 2
  /\ frames[1].pipeline = 2 /\ Completed(frames[1])
  /\ frames[2].pipeline = 3 /\ Completed(frames[2])
  /\ CopiesIn(Counter(Own(2), "op"), calls) = 2
  /\ CopiesIn(Counter(Own(3), "op"), calls) = 1
  /\ CopiesIn(Counter(Own(4), "op"), calls) = 0

-----------------------------------------------------------------------------
(* Chains with tap steps whose function returns a value, raises, or        *)
(* returns a Promise that rejects.                                         *)

TapFns == {Succ, Const(Undefined), Thrower(Err(1)), Thrower(Null), Rejecter(Err(1))}

NextTap ==
  \/ CanStart /\ gluify(Const(Num(1)))
  \/ CanAppend /\ pipe(Last, Succ)
  \/ \E fn \in TapFns : CanAppend /\ tap(Last, fn)
  \/ CanAppend /\ catch(Last, Const(Num(2)))
  \/ Execute

SpecTap == Init /\ [][NextTap]_vars

\* The invocations of the functions of operations of one kind.
FnCallsOf(f, kind) ==
  {k \in DOMAIN f.log : f.log[k].role = "fn" /\ Ops(f)[f.log[k].at].kind = kind}

\* C14: when the function of a tap step has returned normally, the tap
\* operation returns the value it received, whatever fn returned: that value
\* is the current value after the step and the argument of the next function
\* invoked; and fn has been invoked exactly once in the execution, with that
\* value, at the tap's position (after every invocation of an earlier step
\* and before every invocation of a later one).
C14_TapPassesValue ==
  \A e \in DOMAIN frames :
    LET f == frames[e]
    IN  /\ \A k \in FnCallsOf(f, "tap") :
             ~f.log[k].threw =>
               LET ev == f.log[k]
               IN  /\ k < Len(f.log)
                   /\ f.log[k + 1].role = "op"
                   /\ f.log[k + 1].id = ev.id /\ f.log[k + 1].at = ev.at
                   /\ f.log[k + 1].arg = ev.arg
                   /\ f.log[k + 1] = [f.log[k + 1] EXCEPT !.threw = FALSE, !.val = ev.arg]
                   /\ (k + 1 = Len(f.log) /\ f.i = ev.at) =>
                        (f.result = ev.arg /\ ~Errored(f))
                   /\ (k + 1 = Len(f.log) /\ Completed(f)) => f.outcome = Return(ev.arg)
                   /\ k + 1 < Len(f.log) => f.log[k + 2].arg = ev.arg
                   /\ Cardinality({m \in DOMAIN f.log :
                                     f.log[m].id = ev.id /\ f.log[m].role = "fn"}) = 1
                   /\ Ops(f)[ev.at].id = ev.id
                   /\ \A m \in DOMAIN f.log :
                        /\ m < k => f.log[m].at < ev.at
                        /\ m > k + 1 => f.log[m].at > ev.at
        /\ \A k \in DOMAIN f.log :
             (f.log[k].role = "op" /\ Ops(f)[f.log[k].at].kind = "tap") =>
               /\ k - 1 \in FnCallsOf(f, "tap")
               /\ f.log[k - 1].id = f.log[k].id
               /\ f.log[k - 1].arg = f.log[k].arg

\* A completed execution of gluify(() => 1).tap(succ).pipe(succ): the tap's
\* function returned 2 and the pipe's function received 1 and returned 2.
C14_Witness ==
  \E e \in DOMAIN frames :
    LET f == frames[e]
    IN  /\ f.pc = "returned"
        /\ Len(Ops(f)) = 2
        /\ Ops(f)[1].kind = "tap" /\ Ops(f)[1].fn = Succ
        /\ Ops(f)[2].kind = "pipe"
        /\ \E k \in FnCallsOf(f, "tap") : f.log[k].val = Num(2) /\ f.log[k + 2].arg = Num(1)
        /\ f.outcome = Return(Num(2))

\* The pipeline with pipe(fn) in the place of the step tap(fn) at position j.
AsPipe(this, j) == [this EXCEPT !.operations[j].kind = "pipe"]

\* The invocations of the callers' functions made by an execution.
CallerCalls(f) == SelectSeq(f.log, LAMBDA ev : ev.role # "op")

\* C15: when the function of a tap step at position j has failed (raised, or
\* under runAsync() returned a Promise that rejects), the execution goes on
\* as that of the same pipeline with pipe(fn) at position j: it invokes the
\* same functions with the same arguments (so the same Transforms are skipped
\* and the same ErrorHandler receives the failure) and completes with the
\* same outcome.
C15_TapFailureLikePipeFailure ==
  \A e \in DOMAIN frames :
    LET f == frames[e]
    IN  \A k \in FnCallsOf(f, "tap") :
          (Failed(f, f.log[k]) /\ Completed(f)) =>
            LET g == Execution(AsPipe(pipelines[f.pipeline], f.log[k].at), f.mode)
            IN  /\ CallerCalls(f) = CallerCalls(g)
                /\ f.pc = g.pc
                /\ f.outcome = g.outcome

-----------------------------------------------------------------------------
(* Chains with when steps whose predicate holds, does not hold or raises   *)
(* and whose function returns, raises or rejects.                          *)

WhenPredicates == {GreaterThan(1), Thrower(Err(2)), Thrower(Null)}
WhenFns == {Succ, Thrower(Err(1)), Rejecter(Err(1))}

NextWhen ==
  \/ CanStart /\ gluify(Const(Num(1)))
  \/ CanAppend /\ pipe(Last, Succ)
  \/ \E predicate \in WhenPredicates : \E fn \in WhenFns : CanAppend /\ when(Last, predicate, fn)
  \/ CanAppend /\ catch(Last, Const(Num(2)))
  \/ Execute

SpecWhen == Init /\ [][NextWhen]_vars

\* The invocations of one function in an execution.
CallsOf(f, id, role) == {m \in DOMAIN f.log : f.log[m].id = id /\ f.log[m].role = role}

\* What an execution takes as the value of a step that returned v: v itself
\* under run(), what `await v` gives under runAsync().
Delivered(f, v) == IF f.mode = "run" THEN v ELSE Plain(v)

\* C16: a when step invoked with value v has invoked its predicate exactly
\* once, with v; if the predicate returned a true value fn has been invoked
\* once with v and the step ends as fn(v) does; otherwise fn has not been
\* invoked and the step returns v, or ends in the predicate's failure.  A
\* value the step returns becomes the current value; a failure of the step
\* puts the execution in the error state with that failure: the next function
\* invoked is an ErrorHandler, with that failure, and an execution that
\* completes without one raises it.
C16_WhenIsConditional ==
  \A e \in DOMAIN frames :
    LET f == frames[e]
    IN  \A k \in DOMAIN f.log :
          (f.log[k].role = "op" /\ Ops(f)[f.log[k].at].kind = "when") =>
            LET ev == f.log[k]
                preds == CallsOf(f, ev.id, "predicate")
                fns == CallsOf(f, ev.id, "fn")
                t == f.log[CHOOSE m \in preds : TRUE]
            IN  /\ Cardinality(preds) = 1
                /\ t.arg = ev.arg /\ t.at = ev.at
                /\ IF ~t.threw /\ ToBoolean(t.val)
                   THEN /\ fns = {k - 1} /\ preds = {k - 2}
                        /\ f.log[k - 1].arg = ev.arg
                        /\ ev.threw = f.log[k - 1].threw /\ ev.val = f.log[k - 1].val
                   ELSE /\ fns = {} /\ preds = {k - 1}
                        /\ IF t.threw
                           THEN ev.threw /\ ev.val = t.val
                           ELSE ~ev.threw /\ ev.val = ev.arg
                /\ IF Failed(f, ev)
                   THEN /\ (k = Len(f.log) /\ ~Suspended(f)) =>
                             (Errored(f) /\ f.error = Failure(ev))
                        /\ k < Len(f.log) =>
                             (f.log[k + 1].role = "handler" /\ f.log[k + 1].arg = Failure(ev))
                        /\ (k = Len(f.log) /\ Completed(f)) => f.outcome = Throw(Failure(ev))
                   ELSE /\ (k = Len(f.log) /\ f.i = ev.at) =>
                             (f.result = Delivered(f, ev.val) /\ ~Errored(f))
                        /\ (k = Len(f.log) /\ Completed(f)) =>
                             f.outcome = Return(Delivered(f, ev.val))

-----------------------------------------------------------------------------
(* runAsync() of chains that mix pipe and pipeAsync steps with synchronous *)
(* and async functions, on a seed given by a producer or, with             *)
(* new Gluify(initialValue), as a value, which may be a Promise.           *)

\* new Gluify(initialValue)
newGluify(initialValue) ==
  /\ Idle
  /\ pipelines' = Append(pipelines, Gluify(initialValue, <<>>, FALSE, NoInitializer))
  /\ UNCHANGED <<frames, calls>>

AsyncProducers == {Const(Num(1)), Const(Resolved(Num(1)))}
InitialValues == {Num(1), Resolved(Num(2)), Rejected(Err(1))}
AsyncTransforms == {Succ, AsyncSucc, Double}

NextAsync ==
  \/ \E fn \in AsyncProducers : CanStart /\ gluify(fn)
  \/ \E initialValue \in InitialValues : CanStart /\ newGluify(initialValue)
  \/ \E fn \in AsyncTransforms \cup {Thrower(Err(1))} : CanAppend /\ pipe(Last, fn)
  \/ \E fn \in AsyncTransforms : CanAppend /\ pipeAsync(Last, fn)
  \/ CanAppend /\ catch(Last, Const(Num(2)))
  \/ CanRun /\ runAsync(Last)
  \/ \E e \in DOMAIN frames : runAsyncLoop(e)
  \/ \E e \in DOMAIN frames : runAsyncResume(e)
  \/ \E e \in DOMAIN frames : runAsyncEnd(e)

SpecAsync == Init /\ [][NextAsync]_vars

\* The seed value of a pipeline: what its producer returns, or its initial
\* value.
SeedValue(this) == Seed(this).out.val

\* fn(...f2(f1(s))) with every Promise replaced by the value it resolves to.
RECURSIVE ComposeResolved(_, _)
ComposeResolved(fns, s) ==
  IF fns = <<>> THEN Plain(s)
  ELSE ComposeResolved(Tail(fns), Plain(Apply(Head(fns), Plain(s)).val))

\* C17: a completed runAsync() of a pipeline of pipe and pipeAsync Transforms
\* in which nothing failed (no function raised, no Promise rejected) has
\* fulfilled with fn(...f2(f1(s))) computed with every Promise, the seed
\* included, replaced by the value it resolves to.
C17_MixedChainComposes ==
  \A e \in DOMAIN frames :
    LET f == frames[e]
        this == pipelines[f.pipeline]
    IN  (/\ f.mode = "runAsync"
         /\ Completed(f)
         /\ \A j \in DOMAIN this.operations : this.operations[j].kind \in {"pipe", "pipeAsync"}
         /\ SeedValue(this).p # "rejected"
         /\ \A k \in DOMAIN f.log : ~Failed(f, f.log[k])) =>
          f.outcome = Return(ComposeResolved(Fns(this), SeedValue(this)))

\* The pipeline with the pipe step at position j made a pipeAsync step of the
\* same function, or the reverse.
Swapped(this, j) ==
  [this EXCEPT !.operations[j].kind = IF @ = "pipe" THEN "pipeAsync" ELSE "pipe"]

\* What the callers' functions were invoked with, and what they did.
Observed(f) ==
  [k \in DOMAIN CallerCalls(f) |-> [CallerCalls(f)[k] EXCEPT !.late = FALSE]]

\* C18: a completed runAsync() has invoked the same functions with the same
\* arguments, and has the same outcome, as runAsync() of the pipeline that has
\* any one of its pipe steps replaced by pipeAsync of the same function, or
\* one of its pipeAsync steps by pipe.
C18_PipeAndPipeAsyncAgree ==
  \A e \in DOMAIN frames :
    LET f == frames[e]
        this == pipelines[f.pipeline]
    IN  (f.mode = "runAsync" /\ Completed(f)) =>
          \A j \in DOMAIN this.operations :
            this.operations[j].kind \in {"pipe", "pipeAsync"} =>
              LET g == Execution(Swapped(this, j), "runAsync")
              IN  /\ Observed(f) = Observed(g)
                  /\ f.pc = g.pc
                  /\ f.outcome = g.outcome

\* C19: in runAsync(), functions are only invoked by an execution that is not
\* suspended (what it awaited last has settled), for the step just behind the
\* last step walked, which lies behind every step invoked before; and once a
\* producer, operation or handler has returned, the execution is suspended,
\* awaiting what it returned.
C19_StepsStartInOrder ==
  [][\A e \in DOMAIN frames' :
       LET g == frames'[e]
           last == g.log[Len(g.log)]
       IN  g.mode = "runAsync" =>
             IF e \in DOMAIN frames
             THEN LET f == frames[e]
                  IN  g.log # f.log =>
                        /\ f.pc = "loop"
                        /\ f.awaiting = Undefined
                        /\ \A k \in (Len(f.log) + 1) .. Len(g.log) :
                             /\ g.log[k].at = f.i + 1
                             /\ \A m \in DOMAIN f.log : f.log[m].at < g.log[k].at
                        /\ ~last.threw =>
                             (g.pc = "awaitOp" /\ g.awaiting = last.val /\ g.i = f.i)
             ELSE (g.log # <<>> /\ ~last.threw) =>
                    (g.pc = "awaitSeed" /\ g.awaiting = last.val /\ g.i = 0)]_vars

\* A completed runAsync() of gluify(async () => 1).pipe(asyncSucc)
\* .pipeAsync(double): every function was invoked with the settled result of
\* the step before.
C19_Witness ==
  \E e \in DOMAIN frames :
    LET f == frames[e]
    IN  /\ f.mode = "runAsync"
        /\ f.pc = "returned"
        /\ pipelines[f.pipeline].lazyInitializer.fn = Const(Resolved(Num(1)))
        /\ Fns(pipelines[f.pipeline]) = <<AsyncSucc, Double>>
        /\ Ops(f)[2].kind = "pipeAsync"
        /\ \E k \in FnCallsOf(f, "pipeAsync") : f.log[k].arg = Num(2)
        /\ f.outcome = Return(Num(0))

-----------------------------------------------------------------------------
(* Several runAsync() executions in flight at once, of the pipelines of    *)
(* one chain (each a prefix of the next), interleaved at their awaits.     *)

\* Longest step list of the chain, and number of executions started.
MaxSharedSteps == 2
MaxInFlight == 2

CanAppendShared ==
  frames = <<>> /\ pipelines # <<>> /\ Len(pipelines[Last].operations) < MaxSharedSteps

CanRunShared == Len(frames) < MaxInFlight

NextConcurrent ==
  \/ \E fn \in {Const(Num(1)), Rejecter(Err(1))} : CanStart /\ gluify(fn)
  \/ \E fn \in {Succ, Thrower(Err(1))} : CanAppendShared /\ pipe(Last, fn)
  \/ CanAppendShared /\ catch(Last, Const(Num(2)))
  \/ \E p \in DOMAIN pipelines : CanRunShared /\ runAsync(p)
  \/ \E e \in DOMAIN frames : runAsyncLoop(e)
  \/ \E e \in DOMAIN frames : runAsyncResume(e)
  \/ \E e \in DOMAIN frames : runAsyncEnd(e)

SpecConcurrent == Init /\ [][NextConcurrent]_vars

\* C20: whatever executions are in flight and however they have interleaved,
\* each execution, continued on its own from where it is, ends as a
\* runAsync() of its pipeline executed alone does: same invocations, same
\* outcome; and no step changes the step list or the seed of a pipeline that
\* exists.
C20_ExecutionsAreIsolated ==
  /\ [](\A e \in DOMAIN frames :
          LET f == frames[e]
              alone == Execution(pipelines[f.pipeline], f.mode)
              end == IF Completed(f) THEN f ELSE runAsyncWalk(f, Ops(f))
          IN  /\ end.pc = alone.pc
              /\ end.outcome = alone.outcome
              /\ end.log = alone.log)
  /\ [][\A p \in DOMAIN pipelines : pipelines'[p] = pipelines[p]]_vars

\* Two executions of one pipeline of two steps are suspended at once, one at
\* the await of the seed and one inside the first step.
C20_Witness ==
  /\ Len(frames) = 2
  /\ frames[1].pipeline = frames[2].pipeline
  /\ Len(pipelines[frames[1].pipeline].operations) = 2
  /\ frames[1].pc = "awaitOp" /\ frames[1].i = 0
  /\ frames[2].pc = "awaitSeed"

-----------------------------------------------------------------------------
\* The other executor.
Other(mode) == IF mode = "run" THEN "runAsync" ELSE "run"

\* No Promise enters the execution: its seed is none and no function invoked
\* returned one.
Synchronous(f) ==
  /\ ~IsPromise(SeedValue(pipelines[f.pipeline]))
  /\ \A k \in DOMAIN f.log : ~IsPromise(f.log[k].val)

\* C21: when every function of a pipeline is synchronous (no invocation made
\* by run() or by runAsync() returns a Promise), a completed execution by one
\* executor has the outcome of the execution by the other (run() returns what
\* runAsync() fulfils with, or raises what it rejects with) and has made the
\* same invocations, with the same arguments, in the same order.
C21_RunAsyncAgreesWithRun ==
  \A e \in DOMAIN frames :
    LET f == frames[e]
        g == Execution(pipelines[f.pipeline], Other(f.mode))
    IN  (Completed(f) /\ Synchronous(f) /\ Synchronous([g EXCEPT !.pipeline = f.pipeline])) =>
          /\ f.pc = g.pc
          /\ f.outcome = g.outcome
          /\ f.log = g.log

\* A completed runAsync() that failed, recovered in a handler and applied a
\* Transform to the handler's value, all with synchronous functions.
C21_Witness ==
  \E e \in DOMAIN frames :
    LET f == frames[e]
    IN  /\ f.mode = "runAsync"
        /\ f.pc = "returned"
        /\ Synchronous(f)
        /\ \E k \in HandlerCalls(f) : k < Len(f.log) /\ f.log[k + 1].role = "fn"
        /\ f.outcome = Execution(pipelines[f.pipeline], "run").outcome

-----------------------------------------------------------------------------
(* runAsync() of chains whose producer, Transforms and handlers return     *)
(* Promises that reject, with Error objects and with other values.         *)

RejectProducers == {Const(Num(1)), Rejecter(Err(1)), Rejecter(Null)}
RejectTransforms == {Succ, Rejecter(Err(1)), Rejecter(Num(0))}
RejectHandlers == {Const(Num(2)), Rejecter(Err(2)), Rejecter(Undefined)}

NextReject ==
  \/ \E fn \in RejectProducers : CanStart /\ gluify(fn)
  \/ \E fn \in RejectTransforms : CanAppend /\ pipe(Last, fn)
  \/ \E handler \in RejectHandlers : CanAppend /\ catch(Last, handler)
  \/ CanRun /\ runAsync(Last)
  \/ \E e \in DOMAIN frames : runAsyncLoop(e)
  \/ \E e \in DOMAIN frames : runAsyncResume(e)
  \/ \E e \in DOMAIN frames : runAsyncEnd(e)

SpecReject == Init /\ [][NextReject]_vars

\* The function that raises what fn's Promise rejects with.
Raising(fn) == IF fn.name = "reject" THEN Thrower(fn.k) ELSE fn

\* The pipeline with every rejecting function replaced by the function that
\* raises the same value synchronously.
AsThrowers(this) ==
  [this EXCEPT
     !.lazyInitializer.fn = Raising(@),
     !.operations = [j \in DOMAIN @ |-> [@[j] EXCEPT !.fn = Raising(@), !.handler = Raising(@)]]]

\* An invocation as the execution takes it: what was invoked, with what, and
\* the value or failure it ended in.
Taken(f, ev) ==
  [id |-> ev.id, role |-> ev.role, at |-> ev.at, arg |-> ev.arg,
   failed |-> Failed(f, ev), val |-> Plain(ev.val)]

\* C22: under runAsync() (a) an execution completes as that of the pipeline
\* in which every rejecting function raises the same value synchronously
\* instead: same invocations, same outcome; and (b) once the rejection of a
\* producer, Transform or handler has been awaited the execution is in the
\* error state with the rejection value stored (for a handler: in place of
\* the failure it was given), the next function invoked is an ErrorHandler,
\* with that value, and an execution that completes without one rejects with
\* it.
C22_RejectionIsFailure ==
  \A e \in DOMAIN frames :
    LET f == frames[e]
        g == Execution(AsThrowers(pipelines[f.pipeline]), f.mode)
    IN  /\ Completed(f) =>
             /\ f.pc = g.pc
             /\ f.outcome = g.outcome
             /\ Len(f.log) = Len(g.log)
             /\ \A k \in DOMAIN f.log : Taken(f, f.log[k]) = Taken(g, g.log[k])
        /\ \A k \in ExecCalls(f) :
             (f.log[k].val.p = "rejected" /\ ~f.log[k].threw) =>
               /\ (k = Len(f.log) /\ ~Suspended(f)) =>
                    /\ Errored(f)
                    /\ f.error = Failure(f.log[k])
               /\ k < Len(f.log) =>
                    /\ f.log[k + 1].role = "handler"
                    /\ f.log[k + 1].arg = Failure(f.log[k])
               /\ (k = Len(f.log) /\ Completed(f)) =>
                    (f.pc = "threw" /\ f.outcome = Throw(Failure(f.log[k])))

-----------------------------------------------------------------------------
(* runAsync() as its caller sees it: chains whose producer raises          *)
(* synchronously or returns a Promise, chains that start from a concrete   *)
(* value or Promise, steps that raise, return a Promise or recover.        *)

DeliverProducers == {Const(Num(1)), Thrower(Err(1)), Thrower(Null), Const(Resolved(Num(2)))}
DeliverValues == {Num(1), Resolved(Num(2)), Rejected(Err(1))}
DeliverTransforms == {Succ, AsyncSucc, Thrower(Err(1))}
DeliverHandlers == {Const(Resolved(Num(2))), Thrower(Err(2))}

NextDeliver ==
  \/ \E fn \in DeliverProducers : CanStart /\ gluify(fn)
  \/ \E initialValue \in DeliverValues : CanStart /\ newGluify(initialValue)
  \/ \E fn \in DeliverTransforms : CanAppend /\ pipe(Last, fn)
  \/ \E handler \in DeliverHandlers : CanAppend /\ catch(Last, handler)
  \/ CanRun /\ runAsync(Last)
  \/ \E e \in DOMAIN frames : runAsyncLoop(e)
  \/ \E e \in DOMAIN frames : runAsyncResume(e)
  \/ \E e \in DOMAIN frames : runAsyncEnd(e)

SpecDeliver == Init /\ [][NextDeliver]_vars

-----------------------------------------------------------------------------
\* The positions in the log of f of the invocations of the producer.
ProducerCalls(f) == {k \in DOMAIN f.log : f.log[k].role = "producer"}

\* The executions started so far of the pipelines that start from the
\* producer of pipeline p (p and the pipelines derived from a common prefix).
ExecutionsFrom(p) ==
  {e \in DOMAIN frames : pipelines[frames[e].pipeline].lazyInitializer = pipelines[p].lazyInitializer}

\* C24: every execution, run() or runAsync(), of a pipeline built with
\* gluify() has invoked the producer exactly once, as its first invocation
\* and with no argument, whatever has failed or recovered since; the
\* producer has been invoked once per execution started and by nothing else
\* (not by a builder call: never before the first execution).
C24_ProducerOncePerExecution ==
  /\ \A e \in DOMAIN frames :
       LET f == frames[e]
           this == pipelines[f.pipeline]
       IN  this.isLazy =>
             /\ ProducerCalls(f) = {1}
             /\ f.log[1].id = this.lazyInitializer.id
             /\ f.log[1].at = 0
  /\ \A p \in DOMAIN pipelines :
       pipelines[p].isLazy =>
         CopiesIn(Counter(pipelines[p].lazyInitializer.id, "producer"), calls)
           = Cardinality(ExecutionsFrom(p))

\* A completed execution in which a step failed and a handler recovered has
\* invoked the producer once.
C24_Witness ==
  \E e \in DOMAIN frames :
    LET f == frames[e]
    IN  /\ Completed(f)
        /\ pipelines[f.pipeline].isLazy
        /\ ProducerCalls(f) = {1}
        /\ \E k \in StepCalls(f) : f.log[k].role = "op" /\ Failed(f, f.log[k])
        /\ \E k \in HandlerCalls(f) : ~Failed(f, f.log[k])

-----------------------------------------------------------------------------
\* The invocation made by the executor last before position k of the log of f.
Before(f, k) == CHOOSE j \in ExecCalls(f) : j < k /\ \A x \in ExecCalls(f) : x < k => x <= j

\* C25: (state) every handler invocation directly follows, among the
\* producer, Transform and handler invocations of its execution, one that
\* failed, and its argument is the value that one failed with: the failing
\* producer or Transform when no handler was invoked since, the most recent
\* failing handler otherwise; (step) a step that invokes a handler passes it
\* the failure the execution has stored at that moment, and the execution is
\* in the error state.
C25_HandlerGetsCurrentFailure ==
  /\ [](\A e \in DOMAIN frames :
          LET f == frames[e]
          IN  \A k \in HandlerCalls(f) :
                /\ \E j \in ExecCalls(f) : j < k
                /\ Failed(f, f.log[Before(f, k)])
                /\ f.log[k].arg = Failure(f.log[Before(f, k)]))
  /\ [][\A e \in DOMAIN frames :
          \A k \in HandlerCalls(frames'[e]) \ HandlerCalls(frames[e]) :
            /\ Errored(frames[e])
            /\ frames'[e].log[k].arg = frames[e].error]_vars

\* A handler has been invoked with the failure of the handler before it, which
\* differs from the failure that handler was given.
C25_Witness ==
  \E e \in DOMAIN frames :
    LET f == frames[e]
    IN  \E k \in HandlerCalls(f) :
          /\ Before(f, k) \in HandlerCalls(f)
          /\ f.log[k].arg = Failure(f.log[Before(f, k)])
          /\ f.log[k].arg # f.log[Before(f, k)].arg

-----------------------------------------------------------------------------
(* Chains of pipe and recover steps, executed by run() and by runAsync().   *)

RecoverProducers == {Const(Num(1)), Thrower(Err(1))}
RecoverTransforms == {Succ, Thrower(Err(1))}
FallbackValues == {Num(0), Num(3), Null}

NextRecover ==
  \/ \E fn \in RecoverProducers : CanStart /\ gluify(fn)
  \/ \E fn \in RecoverTransforms : CanAppend /\ pipe(Last, fn)
  \/ \E fallbackValue \in FallbackValues : CanAppend /\ recover(Last, fallbackValue)
  \/ CanRun /\ run(Last)
  \/ CanRun /\ runAsync(Last)
  \/ \E e \in DOMAIN frames : runLoop(e)
  \/ \E e \in DOMAIN frames : runEnd(e)
  \/ \E e \in DOMAIN frames : runAsyncLoop(e)
  \/ \E e \in DOMAIN frames : runAsyncResume(e)
  \/ \E e \in DOMAIN frames : runAsyncEnd(e)

SpecRecover == Init /\ [][NextRecover]_vars

\* The pipeline with catch(() => v) in place of every recover(v).
AsCatch(this) ==
  [this EXCEPT !.operations =
     [j \in DOMAIN @ |-> IF isErrorHandler(@[j])
                          THEN ErrorHandlerOperation(@[j].id, Const(@[j].handler.k))
                          ELSE @[j]]]

\* C26: in chains whose only handlers are recover steps, (state) a completed
\* execution has made the invocations and has the outcome of the chain with
\* catch(() => v) in place of every recover(v); (step) a step that completes
\* the walk of recover(v) in the error state leaves the execution error-free
\* with no failure stored and v as its value, and a step that walks
\* recover(v) in the error-free state changes nothing but the position: the
\* value stays, nothing is invoked.
C26_RecoverIsCatchOfConstant ==
  /\ [](\A e \in DOMAIN frames :
          LET f == frames[e]
              g == Execution(AsCatch(pipelines[f.pipeline]), f.mode)
          IN  Completed(f) => (f.pc = g.pc /\ f.outcome = g.outcome /\ f.log = g.log))
  /\ [][\A e \in DOMAIN frames :
          LET f == frames[e]
              g == frames'[e]
              at == f.i + 1
          IN  (/\ g # f
               /\ f.pc \in {"loop", "awaitOp"}
               /\ at \in DOMAIN Ops(f)
               /\ isErrorHandler(Ops(f)[at])) =>
                /\ (Errored(f) /\ g.pc = "loop") =>
                     /\ g.i = at
                     /\ ~Errored(g)
                     /\ g.error = Null
                     /\ g.result = Ops(f)[at].handler.k
                /\ ~Errored(f) =>
                     g = [f EXCEPT !.i = at]]_vars

\* A completed execution has walked one recover step in the error state,
\* which gave it its value, and a later one in the error-free state.
C26_Witness ==
  \E e \in DOMAIN frames :
    LET f == frames[e]
    IN  /\ f.pc = "returned"
        /\ \E j, k \in DOMAIN Ops(f) :
             /\ j < k
             /\ isErrorHandler(Ops(f)[j]) /\ isErrorHandler(Ops(f)[k])
             /\ \E x \in HandlerCalls(f) : f.log[x].at = j
             /\ \A x \in HandlerCalls(f) : f.log[x].at # k
             /\ f.outcome = Return(Ops(f)[j].handler.k)

-----------------------------------------------------------------------------
(* Chains built with extra arguments: gluify(fn, ...args), pipe(fn, ...args) *)
(* and pipeAsync(fn, ...args), executed more than once.                      *)

MaxBoundSteps == 2
MaxBoundRuns == 2

BoundArgs == {<<>>, <<Num(1)>>, <<Num(2), Num(1)>>}

CanAppendBound ==
  frames = <<>> /\ pipelines # <<>> /\ Len(pipelines[Last].operations) < MaxBoundSteps

\* The executions are repeated: one is started when those before it have
\* completed.
CanRunBound ==
  /\ pipelines # <<>>
  /\ Len(frames) < MaxBoundRuns
  /\ \A e \in DOMAIN frames : frames[e].pc \in {"returned", "threw"}

NextArgs ==
  \/ \E args \in BoundArgs : CanStart /\ gluifyArgs(Args, args)
  \/ CanStart /\ gluifyArgs(Succ, <<Num(1)>>)
  \/ \E args \in BoundArgs : CanAppendBound /\ pipeArgs(Last, Args, args)
  \/ CanAppendBound /\ pipeArgs(Last, Succ, <<Num(2)>>)
  \/ \E args \in BoundArgs : CanAppendBound /\ pipeAsyncArgs(Last, Args, args)
  \/ CanRunBound /\ run(Last)
  \/ CanRunBound /\ runAsync(Last)
  \/ \E e \in DOMAIN frames : runLoop(e)
  \/ \E e \in DOMAIN frames : runEnd(e)
  \/ \E e \in DOMAIN frames : runAsyncLoop(e)
  \/ \E e \in DOMAIN frames : runAsyncResume(e)
  \/ \E e \in DOMAIN frames : runAsyncEnd(e)

SpecArgs == Init /\ [][NextArgs]_vars

\* The argument list an invocation was made with.
Arguments(ev) == <<ev.arg>> \o ev.rest

\* The value the executor passed to the operation in which invocation k of
\* the log of f was made.
Piped(f, k) ==
  LET x == CHOOSE x \in DOMAIN f.log : f.log[x].role = "op" /\ f.log[x].at = f.log[k].at
  IN  f.log[x].arg

\* C27: in every execution the producer of gluify(fn, a1..an) is invoked
\* with exactly a1..an, and the function of pipe(f, b1..bm) or
\* pipeAsync(f, b1..bm) with the piped value (for pipeAsync: resolved) first
\* and b1..bm after it, in the order given to the builder; a function that
\* returns its argument list returns exactly that list; and executions of
\* one pipeline by the same executor make the same invocations with the
\* same arguments.
C27_BoundArgumentsFollowValue ==
  /\ \A e \in DOMAIN frames :
       LET f == frames[e]
           this == pipelines[f.pipeline]
       IN  /\ f.log[1].role = "producer"
           /\ f.log[1].rest = Rest(this.lazyInitializer.args)
           /\ f.log[1].arg = First(this.lazyInitializer.args)
           /\ this.lazyInitializer.fn = Args => f.log[1].val = Arr(this.lazyInitializer.args)
           /\ \A k \in DOMAIN f.log :
                f.log[k].role = "fn" =>
                  LET op == Ops(f)[f.log[k].at]
                      v == IF op.kind = "pipeAsync" THEN Plain(Piped(f, k)) ELSE Piped(f, k)
                  IN  /\ Arguments(f.log[k]) = <<v>> \o op.args
                      /\ op.fn = Args => f.log[k].val = Arr(<<v>> \o op.args)
  /\ \A d, e \in DOMAIN frames :
       (/\ frames[d].pipeline = frames[e].pipeline
        /\ frames[d].mode = frames[e].mode
        /\ Completed(frames[d]) /\ Completed(frames[e])) =>
         (frames[d].log = frames[e].log /\ frames[d].outcome = frames[e].outcome)

\* Two completed executions of one pipeline in which a function was invoked
\* with the piped value and two different bound arguments, from a producer
\* invoked with bound arguments.
C27_Witness ==
  \E d, e \in DOMAIN frames :
    /\ d # e
    /\ frames[d].pipeline = frames[e].pipeline
    /\ Completed(frames[d]) /\ Completed(frames[e])
    /\ frames[e].log[1].rest # <<>>
    /\ \E k \in DOMAIN frames[e].log :
         /\ frames[e].log[k].role = "fn"
         /\ Len(frames[e].log[k].rest) = 2
         /\ frames[e].log[k].rest[1] # frames[e].log[k].rest[2]
         /\ frames[e].log[k].val = Arr(Arguments(frames[e].log[k]))

-----------------------------------------------------------------------------
\* C28: (state) the completed run() calls of one pipeline have all made the
\* same invocations with the same arguments and results and have ended
\* alike, with the same value returned or the same failure raised, as the
\* first of them; (step) a run() call starts with the locals of no earlier
\* call: having invoked the producer and nothing else, its value is what the
\* producer returned and no failure is stored, or the failure stored is what
\* the producer raised and it has no value.
C28_RunsAreIndependent ==
  /\ [](\A d, e \in DOMAIN frames :
          (/\ frames[d].pipeline = frames[e].pipeline
           /\ frames[d].mode = "run" /\ frames[e].mode = "run"
           /\ Completed(frames[d]) /\ Completed(frames[e])) =>
            /\ frames[d].pc = frames[e].pc
            /\ frames[d].outcome = frames[e].outcome
            /\ frames[d].log = frames[e].log)
  /\ [][Len(frames') > Len(frames) =>
          LET g == frames'[Len(frames')]
          IN  g.mode = "run" =>
                /\ g.i = 0
                /\ Len(g.log) = 1
                /\ g.log[1].role = "producer"
                /\ g.result = IF g.log[1].threw THEN Undefined ELSE g.log[1].val
                /\ g.error = IF g.log[1].threw THEN g.log[1].val ELSE Null]_vars

\* Three run() calls of one pipeline have completed, each raising the failure
\* of its second step after a handler had recovered from that of the first.
C28_Witness ==
  /\ Len(frames) = 3
  /\ \A e \in DOMAIN frames :
       /\ frames[e].pipeline = frames[1].pipeline
       /\ frames[e].mode = "run"
       /\ frames[e].pc = "threw"
       /\ \E k \in HandlerCalls(frames[e]) : ~frames[e].log[k].threw

-----------------------------------------------------------------------------
(* Chains of catalog transforms on an array or object that the producer    *)
(* returns by reference (const original = [3, 1, 2]; gluify(() => original)). *)
(* The builders' parameter types admit the array utilities on arrays and   *)
(* the object utilities on objects only.                                   *)

MaxCatalogSteps == 2

\* The identity of the array or object that the producer returns.
Original == Fresh(0)

ArrayProducers ==
  {Const(Ref(Original, Arr(<<Num(3), Num(1), Num(2)>>))),
   Const(Ref(Original, Arr(<<Num(1), Arr(<<Num(2)>>), Num(1)>>)))}

ObjectProducers == {Const(Ref(Original, Obj(<<Pair(Str(1), Num(1)), Pair(Str(2), Num(2))>>)))}

\* The n of take(n) and skip(n): negative, zero, inside the array, its length
\* and beyond (the arrays have three elements or fewer).
Counts == {-1, 0, 2, 3, 4}

KeyLists == {<<Str(1)>>, <<Str(3)>>, <<Str(2), Str(3)>>}

Others == {Obj(<<Pair(Str(2), Num(3)), Pair(Str(3), Num(0))>>)}

CanAppendCatalog ==
  frames = <<>> /\ pipelines # <<>> /\ Len(pipelines[Last].operations) < MaxCatalogSteps

CanAppendArray == CanAppendCatalog /\ IsArray(Seed(pipelines[Last]).out.val)

CanAppendObject == CanAppendCatalog /\ IsObject(Seed(pipelines[Last]).out.val)

\* One execution at a time.
CanRunCatalog == CanRun /\ \A e \in DOMAIN frames : frames[e].pc \in {"returned", "threw"}

NextCatalog ==
  \/ \E fn \in ArrayProducers \cup ObjectProducers : CanStart /\ gluify(fn)
  \/ CanAppendArray /\ map(Last, Succ)
  \/ CanAppendArray /\ filter(Last, GreaterThan(1))
  \/ \E n \in Counts : CanAppendArray /\ take(Last, n)
  \/ \E n \in Counts : CanAppendArray /\ skip(Last, n)
  \/ CanAppendArray /\ sort(Last)
  \/ CanAppendArray /\ reverse(Last)
  \/ CanAppendArray /\ flat(Last)
  \/ CanAppendArray /\ unique(Last)
  \/ \E keys \in KeyLists : CanAppendObject /\ pick(Last, keys)
  \/ \E keys \in KeyLists : CanAppendObject /\ omit(Last, keys)
  \/ \E other \in Others : CanAppendObject /\ merge(Last, other)
  \/ CanAppendCatalog /\ clone(Last)
  \/ CanRunCatalog /\ run(Last)
  \/ CanRunCatalog /\ runAsync(Last)
  \/ \E e \in DOMAIN frames : runLoop(e)
  \/ \E e \in DOMAIN frames : runEnd(e)
  \/ \E e \in DOMAIN frames : runAsyncLoop(e)
  \/ \E e \in DOMAIN frames : runAsyncResume(e)
  \/ \E e \in DOMAIN frames : runAsyncEnd(e)

SpecCatalog == Init /\ [][NextCatalog]_vars

\* The catalog transforms that give an array or object.
Copying ==
  {"sort", "reverse", "unique", "take", "skip", "flat", "map", "filter",
   "pick", "omit", "merge", "clone"}

\* The in-place changes recorded in the log of f of the array or object id.
Writes(f, id) == {k \in DOMAIN f.log : f.log[k].role = "write" /\ f.log[k].arg.n = id}

\* The contents now of the array or object v (as it was when the log of f
\* began): those after the last in-place change of it.
Now(f, v) ==
  IF Writes(f, v.n) = {} THEN v.a
  ELSE f.log[CHOOSE k \in Writes(f, v.n) : \A j \in Writes(f, v.n) : j <= k].val.a

\* C29: in every execution of a chain of catalog transforms, (a) every
\* in-place change is made to an array or object that the operation making it
\* has created itself, never to the value that operation received; (b) each
\* of sort, reverse, unique, take, skip, flat, map, filter, pick, omit, merge
\* and clone returns an array or object other than the one it received; and
\* so (c) the array or object that the producer returned has, during and
\* after the execution, the contents it was returned with.
C29_CatalogDoesNotMutate ==
  \A e \in DOMAIN frames :
    LET f == frames[e]
    IN  /\ \A k \in DOMAIN f.log :
             f.log[k].role = "write" =>
               /\ f.log[k].arg.n = Fresh(f.log[k].at)
               /\ f.log[k].arg.n # Piped(f, k).n
               /\ f.log[k].arg.n # Original
        /\ \A k \in DOMAIN f.log :
             (/\ f.log[k].role = "op"
              /\ Ops(f)[f.log[k].at].kind \in Copying
              /\ ~f.log[k].threw) =>
               /\ IsArray(f.log[k].arg) \/ IsObject(f.log[k].arg)
               /\ Plain(f.log[k].val).t = f.log[k].arg.t
               /\ f.log[k].val.n # f.log[k].arg.n
        /\ Now(f, f.log[1].val) = f.log[1].val.a

\* A completed execution in which sort was given the producer's array itself,
\* out of order, and returned it in order.
C29_Witness ==
  \E e \in DOMAIN frames :
    LET f == frames[e]
    IN  /\ Completed(f)
        /\ \E k \in DOMAIN f.log :
             /\ f.log[k].role = "op"
             /\ Ops(f)[f.log[k].at].kind = "sort"
             /\ f.log[k].arg = f.log[1].val
             /\ f.log[k].val.a # f.log[k].arg.a
             /\ f.log[k].val.a = Sorted(f.log[k].arg.a)

\* The events of the log of f of the operations of `kind`, given an array.
Given(f, kind) ==
  {k \in DOMAIN f.log :
     /\ f.log[k].role = "op"
     /\ Ops(f)[f.log[k].at].kind = kind
     /\ IsArray(f.log[k].arg)}

\* C30: for take(n) and skip(n) with n >= 0 given the array a, take(n)
\* returns the first min(n, length(a)) elements of a in order and skip(n) the
\* elements after them in order: what take(n) returns followed by what
\* skip(n) returns for the same a is a; for n > length(a), take(n) returns
\* the elements of a and skip(n) none.
C30_TakeAndSkipSplit ==
  \A e \in DOMAIN frames :
    LET f == frames[e]
    IN  /\ \A k \in Given(f, "take") :
             LET op == Ops(f)[f.log[k].at]
                 n == op.args[1].n
                 a == f.log[k].arg.a
                 rest == skipOperation(op, f.log[k].at, f.log[k].arg).out.val.a
             IN  n >= 0 =>
                   /\ ~f.log[k].threw
                   /\ Plain(f.log[k].val).a = SubSeq(a, 1, Min(n, Len(a)))
                   /\ Plain(f.log[k].val).a \o rest = a
                   /\ n > Len(a) => (Plain(f.log[k].val).a = a /\ rest = <<>>)
        /\ \A k \in Given(f, "skip") :
             LET op == Ops(f)[f.log[k].at]
                 n == op.args[1].n
                 a == f.log[k].arg.a
                 first == takeOperation(op, f.log[k].at, f.log[k].arg).out.val.a
             IN  n >= 0 =>
                   /\ ~f.log[k].threw
                   /\ Plain(f.log[k].val).a = SubSeq(a, Min(n, Len(a)) + 1, Len(a))
                   /\ first \o Plain(f.log[k].val).a = a
                   /\ n > Len(a) => (Plain(f.log[k].val).a = <<>> /\ first = a)

\* A completed execution in which take(2) has split off the first two of
\* three elements and another in which skip(4) was given three elements.
C30_Witness ==
  \E e \in DOMAIN frames :
    LET f == frames[e]
    IN  /\ Completed(f)
        /\ \E k \in Given(f, "take") :
             /\ Ops(f)[f.log[k].at].args[1].n = 2
             /\ Len(f.log[k].arg.a) = 3
             /\ Len(Plain(f.log[k].val).a) = 2
        /\ \E k \in Given(f, "skip") :
             /\ Ops(f)[f.log[k].at].args[1].n > Len(f.log[k].arg.a)
             /\ Len(f.log[k].arg.a) > 0
             /\ Plain(f.log[k].val).a = <<>>

-----------------------------------------------------------------------------
\* The positions in the log of g of the invocations that the step from f to g
\* has made.
Made(f, g) == (Len(f.log) + 1) .. Len(g.log)

\* C31: (step) a step of an execution that invokes a Transform (its
\* operation, and with it the caller's function) starts in the error-free
\* state at a step that is no ErrorHandler, a step that invokes a handler
\* starts in the error state at a step that is an ErrorHandler, and no step
\* invokes both; (state) at the step an execution is about to walk exactly
\* one of the two is eligible or neither: a Transform only if it is
\* error-free, a handler only if it is in the error state.
C31_TransformXorHandler ==
  /\ [][\A e \in DOMAIN frames :
          LET f == frames[e]
              g == frames'[e]
              ops == {k \in Made(f, g) : g.log[k].role \in {"op", "fn", "predicate"}}
              handlers == {k \in Made(f, g) : g.log[k].role = "handler"}
          IN  /\ ops # {} => (~Errored(f) /\ ~isErrorHandler(Ops(f)[f.i + 1]))
              /\ handlers # {} => (Errored(f) /\ isErrorHandler(Ops(f)[f.i + 1]))
              /\ ops = {} \/ handlers = {}]_vars
  /\ [](\A e \in DOMAIN frames :
          LET f == frames[e]
          IN  \A k \in DOMAIN f.log :
                /\ f.log[k].role = "op" => ~isErrorHandler(Ops(f)[f.log[k].at])
                /\ f.log[k].role = "handler" =>
                     (isErrorHandler(Ops(f)[f.log[k].at]) /\ ToBoolean(f.log[k].arg)))

\* A completed execution has invoked a handler and, at a later step, a
\* Transform.
C31_Witness ==
  \E e \in DOMAIN frames :
    LET f == frames[e]
    IN  /\ Completed(f)
        /\ \E h \in HandlerCalls(f) : \E k \in DOMAIN f.log :
             /\ f.log[k].role = "op"
             /\ f.log[h].at < f.log[k].at

-----------------------------------------------------------------------------
\* The positions in the log of f of the invocations with `role` made at step j.
At(f, j, role) == {k \in DOMAIN f.log : f.log[k].at = j /\ f.log[k].role = role}

\* C32: (state) in one execution the operation of every Transform step, the
\* function given for it and the handler of every ErrorHandler step have
\* each been invoked at most once, the invocations were made in step order
\* (after an invocation at step j only steps after j are invoked: a failing
\* step is not tried again and a handler that failed is not invoked again),
\* and none at a step the execution has not reached; (step) a step of an
\* execution moves its position forward by at most one and never back, and
\* a completed execution has walked every step.
C32_EveryStepWalkedOnce ==
  /\ [](\A e \in DOMAIN frames :
          LET f == frames[e]
          IN  /\ \A j \in DOMAIN Ops(f) : \A role \in {"op", "fn", "handler"} :
                   Cardinality(At(f, j, role)) <= 1
              /\ \A k, x \in ExecCalls(f) : k < x => f.log[k].at < f.log[x].at
              /\ \A k \in DOMAIN f.log : f.log[k].at <= f.i + 1
              /\ Completed(f) => f.i = Len(Ops(f)))
  /\ [][\A e \in DOMAIN frames :
          /\ frames'[e].i \in {frames[e].i, frames[e].i + 1}
          /\ frames'[e].pipeline = frames[e].pipeline]_vars

\* A completed execution in which a handler failed and the next handler,
\* invoked with that failure, recovered.
C32_Witness ==
  \E e \in DOMAIN frames :
    LET f == frames[e]
    IN  /\ Completed(f)
        /\ \E h, k \in HandlerCalls(f) :
             /\ h < k
             /\ f.log[h].threw
             /\ ~f.log[k].threw
             /\ f.log[k].arg = f.log[h].val

-----------------------------------------------------------------------------
(* run() of chains that hold pipeAsync steps and pipe steps whose function *)
(* returns a Promise.                                                      *)

MixedTransforms == {Succ, AsyncSucc, Thrower(Err(1))}

NextMixed ==
  \/ CanStart /\ gluify(Const(Num(1)))
  \/ \E fn \in MixedTransforms \cup {Rejecter(Err(2))} : CanAppend /\ pipe(Last, fn)
  \/ \E fn \in MixedTransforms : CanAppend /\ pipeAsync(Last, fn)
  \/ CanAppend /\ catch(Last, Const(Num(2)))
  \/ CanRun /\ run(Last)
  \/ \E e \in DOMAIN frames : runLoop(e)
  \/ \E e \in DOMAIN frames : runEnd(e)

SpecMixed == Init /\ [][NextMixed]_vars

\* The event of the log of f of the operation in which invocation k was made.
OpOf(f, k) ==
  f.log[CHOOSE x \in DOMAIN f.log : f.log[x].role = "op" /\ f.log[x].at = f.log[k].at]

\* C33: under run(), whenever the function of a pipeAsync step is invoked in
\* a step that was given a Promise, its argument is the value that Promise
\* resolved with and no Promise; and what every pipeAsync step returns, the
\* value given to the next step, is a Promise.
C33_PipeAsyncResolvesInput ==
  \A e \in DOMAIN frames :
    LET f == frames[e]
    IN  f.mode = "run" =>
          /\ \A k \in DOMAIN f.log :
               (f.log[k].role = "fn" /\ Ops(f)[f.log[k].at].kind = "pipeAsync") =>
                 /\ ~IsPromise(f.log[k].arg)
                 /\ OpOf(f, k).arg.p # "rejected"
                 /\ f.log[k].arg = Plain(OpOf(f, k).arg)
          /\ \A k \in DOMAIN f.log :
               (f.log[k].role = "op" /\ Ops(f)[f.log[k].at].kind = "pipeAsync") =>
                 /\ ~f.log[k].threw
                 /\ IsPromise(f.log[k].val)
                 /\ \A x \in ExecCalls(f) :
                      (x > k /\ \A y \in ExecCalls(f) : ~(k < y /\ y < x)) =>
                        f.log[x].arg = f.log[k].val

\* A completed run() in which a pipe step returned a Promise and the
\* pipeAsync step after it invoked its function with the resolved value;
\* run() returned a Promise.
C33_Witness ==
  \E e \in DOMAIN frames :
    LET f == frames[e]
    IN  /\ f.mode = "run"
        /\ f.pc = "returned"
        /\ IsPromise(f.outcome.val)
        /\ \E k \in DOMAIN f.log :
             /\ f.log[k].role = "fn"
             /\ Ops(f)[f.log[k].at].kind = "pipeAsync"
             /\ OpOf(f, k).arg.p = "fulfilled"
             /\ f.log[k].arg = Plain(OpOf(f, k).arg)
             /\ \E j \in DOMAIN f.log :
                  /\ f.log[j].role = "op"
                  /\ f.log[j].at < f.log[k].at
                  /\ Ops(f)[f.log[j].at].kind = "pipe"
                  /\ f.log[j].val = OpOf(f, k).arg

-----------------------------------------------------------------------------
\* The positions in the log of f of the invocations of pipeAsync operations.
PipeAsyncCalls(f) ==
  {k \in DOMAIN f.log : f.log[k].role = "op" /\ Ops(f)[f.log[k].at].kind = "pipeAsync"}

\* The function of the pipeAsync operation invoked at position k of the log
\* of f was invoked and raised.
FnRaised(f, k) ==
  \E x \in DOMAIN f.log :
    f.log[x].role = "fn" /\ f.log[x].at = f.log[k].at /\ f.log[x].threw

\* C34: under run(), no pipeAsync operation raises, and the execution is in
\* the error state after none; when the function of a pipeAsync step has
\* raised, the step has returned a Promise rejected with the raised value,
\* the execution is error-free when it moves on, and what it invokes next is
\* not a handler but the next Transform, with that Promise as its argument.
C34_PipeAsyncNeverFailsRun ==
  \A e \in DOMAIN frames :
    LET f == frames[e]
    IN  f.mode = "run" =>
          \A k \in PipeAsyncCalls(f) :
            /\ ~f.log[k].threw
            /\ (\A x \in ExecCalls(f) : x <= k) => ~Errored(f)
            /\ FnRaised(f, k) =>
                 /\ f.log[k].val.p = "rejected"
                 /\ \E x \in DOMAIN f.log :
                      /\ f.log[x].role = "fn" /\ f.log[x].at = f.log[k].at
                      /\ Plain(f.log[k].val) = f.log[x].val
                 /\ \A x \in ExecCalls(f) :
                      (x > k /\ \A y \in ExecCalls(f) : ~(k < y /\ y < x)) =>
                        /\ f.log[x].role = "op"
                        /\ f.log[x].arg = f.log[k].val
                 /\ \A j \in DOMAIN Ops(f) :
                      (j > f.log[k].at /\ j <= f.i /\ ~isErrorHandler(Ops(f)[j])
                         /\ \A h \in (f.log[k].at + 1) .. (j - 1) : isErrorHandler(Ops(f)[h])) =>
                        At(f, j, "op") # {}

\* A completed run() in which the function of a pipeAsync step raised, the
\* ErrorHandler step after it was passed over, the Transform after that was
\* applied to the rejected Promise, and run() returned.
C34_Witness ==
  \E e \in DOMAIN frames :
    LET f == frames[e]
    IN  /\ f.mode = "run"
        /\ f.pc = "returned"
        /\ HandlerCalls(f) = {}
        /\ \E k \in PipeAsyncCalls(f) :
             /\ FnRaised(f, k)
             /\ f.log[k].at + 2 \in DOMAIN Ops(f)
             /\ isErrorHandler(Ops(f)[f.log[k].at + 1])
             /\ \E x \in At(f, f.log[k].at + 2, "op") : f.log[x].arg = f.log[k].val

-----------------------------------------------------------------------------
(* Progress.  The caller's functions return or raise, so a run() call,     *)
(* once started, goes on until it returns or raises; a runAsync() call is  *)
(* resumed when the Promise it awaits has settled, which every Promise of  *)
(* the model does.                                                         *)

LiveProducers == {Const(Num(1))}
LiveTransforms == {AsyncSucc, Thrower(Err(1))}
LiveHandlers == {Const(Num(2)), Thrower(Err(2))}

\* A step of execution e.
Step(e) ==
  /\ e \in DOMAIN frames
  /\ runLoop(e) \/ runEnd(e) \/ runAsyncLoop(e) \/ runAsyncResume(e) \/ runAsyncEnd(e)

\* Execution e has been started and has completed.
Done(e) == e \in DOMAIN frames /\ Completed(frames[e])

\* One execution is started after the other.
CanRunLive == CanRun /\ \A e \in DOMAIN frames : Completed(frames[e])

NextLive ==
  \/ \E fn \in LiveProducers : CanStart /\ gluify(fn)
  \/ \E fn \in LiveTransforms : CanAppend /\ pipe(Last, fn)
  \/ \E handler \in LiveHandlers : CanAppend /\ catch(Last, handler)
  \/ CanRunLive /\ run(Last)
  \/ CanRunLive /\ runAsync(Last)
  \/ \E e \in DOMAIN frames : runLoop(e)
  \/ \E e \in DOMAIN frames : runEnd(e)
  \/ \E e \in DOMAIN frames : runAsyncLoop(e)
  \/ \E e \in DOMAIN frames : runAsyncResume(e)
  \/ \E e \in DOMAIN frames : runAsyncEnd(e)

SpecLive == Init /\ [][NextLive]_vars /\ \A e \in 1 .. MaxRuns : WF_vars(Step(e))

\* The steps execution e has still to walk, and one more until it has
\* completed.
Remaining(e) ==
  IF Completed(frames[e]) THEN 0 ELSE Len(Ops(frames[e])) - frames[e].i + 1

\* C35: every execution started completes; until then each of its steps
\* moves it one step forward or leaves its position (while it waits for a
\* Promise to settle), never back; it completes only when it has walked
\* every step, and then it has returned (fulfilled with) a value if it is
\* error-free and raised (rejected with) the stored failure otherwise.
C35_EveryExecutionTerminates ==
  /\ \A e \in 1 .. MaxRuns : (e \in DOMAIN frames) ~> Done(e)
  /\ [][\A e \in DOMAIN frames :
          /\ Remaining(e)' <= Remaining(e)
          /\ frames'[e].i >= frames[e].i
          /\ frames'[e].i <= Len(Ops(frames[e]))
          /\ Completed(frames[e]) => frames'[e] = frames[e]
          /\ (~Completed(frames[e]) /\ Completed(frames'[e])) =>
               /\ frames[e].i = Len(Ops(frames[e]))
               /\ frames'[e].pc = (IF Errored(frames[e]) THEN "threw" ELSE "returned")
               /\ Errored(frames[e]) => frames'[e].outcome = Throw(frames[e].error)]_vars

\* A runAsync() that was suspended at every one of its three steps has
\* completed.
C35_Witness ==
  \E e \in DOMAIN frames :
    LET f == frames[e]
    IN  /\ f.mode = "runAsync"
        /\ Completed(f)
        /\ Len(Ops(f)) = 3
        /\ f.i = 3
        /\ \A j \in 1 .. 3 : At(f, j, "op") \cup At(f, j, "handler") # {}

-----------------------------------------------------------------------------
\* The failures raised so far by the producer, Transforms and handlers of the
\* execution, and the handler invocations that returned normally.
Raised(f) == {k \in ExecCalls(f) : Failed(f, f.log[k])}

Handled(f) == {k \in HandlerCalls(f) : ~Failed(f, f.log[k])}

Unhandled(f) == Cardinality(Raised(f)) - Cardinality(Handled(f))

\* The failures among them that put the execution in the error state (the
\* executors test the stored failure for truthiness).
Entered(f) == {k \in Raised(f) : ToBoolean(Failure(f.log[k]))}

Pending(f) == Cardinality(Entered(f)) - Cardinality(HandlerCalls(f))

\* Every value the execution has seen raised is truthy.
Truthy(f) == Entered(f) = Raised(f)

-----------------------------------------------------------------------------
(* The v1 executors value() and valueAsync(), which v2 replaced by run()   *)
(* and runAsync().  They look up one handler before they start, the last   *)
(* ErrorHandler of the list, apply every other operation inside one try    *)
(* block, and on the first failure return what that handler gives.         *)
(* Their frames have mode "value" or "valueAsync".                         *)

\* The ErrorHandler that the scan `for (const op of this.operations)` leaves
\* in errorHandler: the position of the last one, 0 for null.
errorHandlerOf(ops) ==
  LET hs == {j \in DOMAIN ops : isErrorHandler(ops[j])}
  IN  IF hs = {} THEN 0 ELSE CHOOSE j \in hs : \A k \in hs : k <= j

\* valueCatch that raises the failure again without asking the handler.
valueCatchRethrows(f, ops, error) ==
  [f EXCEPT !.pc = "threw", !.error = error, !.outcome = Throw(error), !.call = "threw"]

\* value(): the catch clause.
valueCatch(f, ops, error) ==
  LET h == errorHandlerOf(ops)
  IN  IF h = 0
      THEN [f EXCEPT !.pc = "threw", !.error = error, !.outcome = Throw(error),
                     !.call = "threw"]
      ELSE LET o == Apply(ops[h].handler, error)
               ev == Invocation(ops[h].id, "handler", h, error, o)
           IN  [f EXCEPT !.pc = IF o.threw THEN "threw" ELSE "returned",
                         !.error = error, !.outcome = o, !.log = Append(@, ev),
                         !.call = IF o.threw THEN "threw" ELSE "returned"]

\* value(): the producer's call at the head of the try block.
valueSeed(this, f) ==
  LET s == Seed(this)
      g == [f EXCEPT !.log = @ \o s.evs]
  IN  IF s.out.threw
      THEN valueCatch(g, this.operations, s.out.val)
      ELSE [g EXCEPT !.result = s.out.val]

\* value(): one iteration of the loop inside the try block.
valueOp(f, ops) ==
  LET at == f.i + 1
  IN  IF isErrorHandler(ops[at])
      THEN [f EXCEPT !.i = at]
      ELSE LET r == Invoke(ops[at], at, f.result)
           IN  IF r.out.threw
               THEN valueCatch([f EXCEPT !.i = at, !.log = @ \o r.evs], ops, r.out.val)
               ELSE [f EXCEPT !.i = at, !.result = r.out.val, !.log = @ \o r.evs]

\* value(): `return result`.
valueReturn(f) ==
  [f EXCEPT !.pc = "returned", !.outcome = Return(f.result), !.call = "returned"]

\* valueAsync(): the catch clause, `return await errorHandler(error)`.
valueAsyncCatch(f, ops, error) ==
  LET h == errorHandlerOf(ops)
  IN  IF h = 0
      THEN [f EXCEPT !.pc = "threw", !.error = error, !.outcome = Throw(error),
                     !.call = "returned"]
      ELSE LET o == Apply(ops[h].handler, error)
               ev == Invocation(ops[h].id, "handler", h, error, o)
               a == IF o.threw THEN o ELSE Await(o.val)
           IN  [f EXCEPT !.pc = IF a.threw THEN "threw" ELSE "returned",
                         !.error = error, !.outcome = a, !.log = Append(@, ev),
                         !.call = "returned"]

\* valueAsync(): `await this.lazyInitializer()`; a concrete initial value is
\* taken as it is.
valueAsyncSeed(this, f) ==
  LET s == Seed(this)
      a == IF s.out.threw \/ s.evs = <<>> THEN s.out ELSE Await(s.out.val)
      g == [f EXCEPT !.log = @ \o s.evs, !.call = "returned"]
  IN  IF a.threw
      THEN valueAsyncCatch(g, this.operations, a.val)
      ELSE [g EXCEPT !.result = a.val]

\* valueAsync(): one iteration, `result = await op(result)`.
valueAsyncOp(f, ops) ==
  LET at == f.i + 1
  IN  IF isErrorHandler(ops[at])
      THEN [f EXCEPT !.i = at]
      ELSE LET r == Invoke(ops[at], at, f.result)
           IN  IF r.out.threw \/ r.out.val.p = "rejected"
               THEN valueAsyncCatch([f EXCEPT !.i = at, !.log = @ \o r.evs], ops,
                                    Plain(r.out.val))
               ELSE [f EXCEPT !.i = at, !.result = Plain(r.out.val), !.log = @ \o r.evs]

\* valueAsync(): `return result` of an async function.
valueAsyncReturn(f) ==
  LET a == Await(f.result)
  IN  [f EXCEPT !.pc = IF a.threw THEN "threw" ELSE "returned", !.outcome = a,
                 !.call = "returned"]

\* value() and valueAsync() on pipeline p, and their steps.  A v1 execution
\* shares no state with another one, so what valueAsync() awaits is taken to
\* settle within the step.
valueV1(p) ==
  /\ Idle
  /\ p \in DOMAIN pipelines
  /\ LET f == Frame(p, "value")
         g == valueSeed(pipelines[p], f)
     IN  /\ frames' = Append(frames, g)
         /\ calls' = calls (+) NewCalls(f, g)
  /\ UNCHANGED pipelines

valueAsyncV1(p) ==
  /\ Idle
  /\ p \in DOMAIN pipelines
  /\ LET f == Frame(p, "valueAsync")
         g == valueAsyncSeed(pipelines[p], f)
     IN  /\ frames' = Append(frames, g)
         /\ calls' = calls (+) NewCalls(f, g)
  /\ UNCHANGED pipelines

valueLoop(e) ==
  /\ e \in DOMAIN frames
  /\ frames[e].mode = "value"
  /\ frames[e].pc = "loop"
  /\ frames[e].i < Len(pipelines[frames[e].pipeline].operations)
  /\ frames' = [frames EXCEPT ![e] = valueOp(@, pipelines[@.pipeline].operations)]
  /\ calls' = calls (+) NewCalls(frames[e], frames'[e])
  /\ UNCHANGED pipelines

valueAsyncLoop(e) ==
  /\ e \in DOMAIN frames
  /\ frames[e].mode = "valueAsync"
  /\ frames[e].pc = "loop"
  /\ frames[e].i < Len(pipelines[frames[e].pipeline].operations)
  /\ frames' = [frames EXCEPT ![e] = valueAsyncOp(@, pipelines[@.pipeline].operations)]
  /\ calls' = calls (+) NewCalls(frames[e], frames'[e])
  /\ UNCHANGED pipelines

valueEnd(e) ==
  /\ e \in DOMAIN frames
  /\ frames[e].mode \in {"value", "valueAsync"}
  /\ frames[e].pc = "loop"
  /\ frames[e].i = Len(pipelines[frames[e].pipeline].operations)
  /\ frames' = [frames EXCEPT ![e] = IF frames[e].mode = "value"
                                     THEN valueReturn(frames[e])
                                     ELSE valueAsyncReturn(frames[e])]
  /\ UNCHANGED <<pipelines, calls>>

\* The executor of v2 that took the place of the v1 executor.
Renamed(mode) == IF mode = "value" THEN "run" ELSE "runAsync"

V1 == {"value", "valueAsync"}

\* One pipeline is executed by a v1 executor and by a v2 executor, one after
\* the other.
CanRunVersion(modes) ==
  /\ pipelines # <<>>
  /\ \A e \in DOMAIN frames : Completed(frames[e]) /\ frames[e].mode \notin modes

RenameProducers == {Const(Num(1)), Thrower(Err(1))}
RenameTransforms == {Succ, Thrower(Err(1)), Rejecter(Err(1))}
RenameHandlers == {Const(Num(2)), Thrower(Err(2))}

NextRename ==
  \/ \E fn \in RenameProducers : CanStart /\ gluify(fn)
  \/ \E fn \in RenameTransforms : CanAppend /\ pipe(Last, fn)
  \/ \E handler \in RenameHandlers : CanAppend /\ catch(Last, handler)
  \/ CanRunVersion(V1) /\ valueV1(Last)
  \/ CanRunVersion(V1) /\ valueAsyncV1(Last)
  \/ \E e \in DOMAIN frames : valueLoop(e)
  \/ \E e \in DOMAIN frames : valueAsyncLoop(e)
  \/ \E e \in DOMAIN frames : valueEnd(e)
  \/ CanRunVersion({"run", "runAsync"}) /\ run(Last)
  \/ CanRunVersion({"run", "runAsync"}) /\ runAsync(Last)
  \/ \E e \in DOMAIN frames : runLoop(e)
  \/ \E e \in DOMAIN frames : runEnd(e)
  \/ \E e \in DOMAIN frames : runAsyncLoop(e)
  \/ \E e \in DOMAIN frames : runAsyncResume(e)
  \/ \E e \in DOMAIN frames : runAsyncEnd(e)

SpecRename == Init /\ [][NextRename]_vars

\* The handler invocations of an execution, in order.
HandlerLog(f) == SelectSeq(f.log, LAMBDA ev : ev.role = "handler")

\* The positions of the ErrorHandlers of an execution's pipeline.
HandlersOf(f) == {j \in DOMAIN Ops(f) : isErrorHandler(Ops(f)[j])}

\* Completed executions of one pipeline by a v1 executor and by the v2
\* executor that replaced it.
Counterparts(v, r) ==
  /\ v.mode \in V1
  /\ r.mode = Renamed(v.mode)
  /\ v.pipeline = r.pipeline
  /\ Completed(v)
  /\ Completed(r)

====
